---- MODULE Spec2Model ----
(***************************************************************************)
(* Banking-System: the in-memory SecureDatabase (users, sessions,          *)
(* transactions), the route handlers built on it (transfer, withdraw,      *)
(* deposit, verify, admin), the SQL-backed AuthService (login, validate,   *)
(* logout) with its repositories, and the fixed-window rate limiter.       *)
(*                                                                         *)
(* Execution model: one Node.js process.  A handler runs without           *)
(* interruption between two awaits; every action below is one such run.    *)
(*                                                                         *)
(* Time is counted in quanta of 15 minutes (900000 ms), so the lock-out    *)
(* and rate-limit windows are 1 quantum and a session lives 96 quanta.     *)
(* Money is counted in thousandths of a rand, so that 0.1% of a whole      *)
(* number of rands is an integer.                                          *)
(***************************************************************************)
EXTENDS Integers, Sequences, FiniteSets, TLC

\* ---------------------------------------------------------------- bounds
MaxTicks == 2
MaxReqs == 3

\* ------------------------------------------------------ program constants
LOCK_THRESHOLD == 5
LOCK_DURATION == 1
SESSION_TTL == 96
RATE_MAX == 5
RATE_WINDOW == 1
HISTORY_KEEP == 10

R(x) == x * 1000

Undefined == 0 - 1

Procs == {1, 2}

\* The strings of the program: ids, tokens and e-mail addresses are kept
\* apart by their kind, as their formats keep them apart in the source.
SeqId(n) == [kind |-> "seq", n |-> n]
TokId(n) == [kind |-> "tok", n |-> n]
Uuid(n) == [kind |-> "uuid", n |-> n]
NoId == [kind |-> "none", n |-> 0]

ADMIN_EMAIL == "your.example@gmail.com"
CUSTOMER_EMAIL == "john.doe@example.com"
ADMIN_ACCOUNT == "6200000001"
CUSTOMER_ACCOUNT == "6200000002"
ADMIN_PASSWORD == "AdminPass123!"
CUSTOMER_PASSWORD == "Customer123!"
WRONG_PASSWORD == "Wrong123!"

VARIABLES
  now,            \* Date.now(), in quanta
  ticks,          \* how often the clock has advanced
  users,          \* secureStorage.users
  sessions,       \* secureStorage.sessions
  transactions,   \* secureStorage.transactions
  timers,         \* pending setTimeout callbacks of the transfer route
  rateLimitStore, \* rateLimitStore of lib/security
  userLimits,     \* userLimits of lib/database
  dbUsers,        \* table users
  dbSessions,     \* table sessions
  dbLoginHistory, \* table login_history
  dbTransactions, \* table transactions
  rateCalls,      \* the calls of checkRateLimit made so far and what each returned
  tokens,         \* tokens handed to callers
  fresh,          \* how many random values (tokens, uuids) were drawn
  req,            \* the requests in flight, one per slot
  last,           \* the response sent last
  nreq            \* how many requests were started

vars == <<now, userLimits, ticks, users, sessions, transactions, timers, rateLimitStore,
          dbUsers, dbSessions, dbLoginHistory, dbTransactions, rateCalls,
          tokens, fresh, req, last, nreq>>

\* ------------------------------------------------------------- SecureCrypto
HashPassword(password, salt) == <<"pbkdf2", salt, password>>

VerifyPassword(password, storedHash, storedSalt) ==
  HashPassword(password, storedSalt) = storedHash

\* generateJWT / verifyJWT: the token carries its payload and a signature
\* made with the secret; verifyJWT returns the payload of a token whose
\* signature matches and null otherwise.
JWT_SECRET == "fallback-secret"

GenerateJWT(payload, secret) ==
  [kind |-> "jwt", payload |-> payload, signature |-> secret]

NullPayload == [userId |-> NoId, sessionId |-> NoId, role |-> "none", exp |-> Undefined]

VerifyJWT(token, secret) ==
  IF token.kind = "jwt" /\ token.signature = secret THEN token.payload ELSE NullPayload

GarbageToken == [kind |-> "garbage", payload |-> NullPayload, signature |-> "none"]

\* ------------------------------------------------------------ SecureDatabase
NoUser == 0

SecureUser(id, email, password, role, accountNumber, balance) ==
  [id |-> SeqId(id), email |-> email,
   passwordHash |-> HashPassword(password, id), passwordSalt |-> id,
   role |-> role, accountNumber |-> accountNumber, balance |-> balance,
   isActive |-> TRUE, failedLoginAttempts |-> 0, lockedUntil |-> Undefined,
   sessionId |-> NoId, loginHistory |-> <<>>]

\* secureStorage.users.find(...) returns the first match; 0 stands for undefined
FindFirst(hits) ==
  IF hits = {} THEN NoUser ELSE CHOOSE i \in hits : \A j \in hits : i <= j

FindUserByEmail(email) == FindFirst({i \in 1..Len(users) : users[i].email = email})
FindUserById(id) == FindFirst({i \in 1..Len(users) : users[i].id = id})
FindUserBySession(sid) == FindFirst({i \in 1..Len(users) : users[i].sessionId = sid})

Locked(lockedUntil) == lockedUntil # Undefined /\ now < lockedUntil

SecValidateNoActiveCheck(token) ==
  LET payload == VerifyJWT(token, JWT_SECRET)
      u == FindUserById(payload.userId)
  IN IF payload = NullPayload \/ payload.exp < now THEN NoUser
     ELSE IF payload.sessionId \notin DOMAIN sessions THEN NoUser
     ELSE IF sessions[payload.sessionId].expiresAt < now THEN NoUser
     ELSE IF u = NoUser THEN NoUser
     ELSE IF users[u].sessionId # payload.sessionId THEN NoUser
     ELSE u

SecValidateNoExpiry(token) ==
  LET payload == VerifyJWT(token, JWT_SECRET)
      u == FindUserById(payload.userId)
  IN IF payload = NullPayload THEN NoUser
     ELSE IF payload.sessionId \notin DOMAIN sessions THEN NoUser
     ELSE IF u = NoUser THEN NoUser
     ELSE IF ~users[u].isActive \/ users[u].sessionId # payload.sessionId THEN NoUser
     ELSE u

\* SecureDatabase.validateSession: the index of the user, or NoUser for null
SecValidateSession(token) ==
  LET payload == VerifyJWT(token, JWT_SECRET)
      u == FindUserById(payload.userId)
  IN IF payload = NullPayload \/ payload.exp < now THEN NoUser
     ELSE IF payload.sessionId \notin DOMAIN sessions THEN NoUser
     ELSE IF sessions[payload.sessionId].expiresAt < now THEN NoUser
     ELSE IF u = NoUser THEN NoUser
     ELSE IF ~users[u].isActive \/ users[u].sessionId # payload.sessionId THEN NoUser
     ELSE u

\* ------------------------------------------------- the tables of the database
\* a row of table users, as UserRepository.create inserts it
DbUser(id, email, password, role, accountNumber, balance) ==
  [id |-> id, email |-> email,
   passwordHash |-> HashPassword(password, id), passwordSalt |-> id,
   role |-> role, accountNumber |-> accountNumber, balance |-> balance,
   isActive |-> TRUE, failedLoginAttempts |-> 0, lockedUntil |-> Undefined]

DB_CUSTOMER_ID == Uuid(0)

\* a row of table transactions, with the columns the properties read;
\* createdHour is the hour of day of column created_at
DbTransaction(id, data, status, completedAt, riskScore, createdHour) ==
  [id |-> id, fromAccountNumber |-> data.fromAccountNumber,
   toAccountNumber |-> data.toAccountNumber, amountInZar |-> data.amountInZar,
   fees |-> data.fees, transactionType |-> data.transactionType,
   status |-> status, completedAt |-> completedAt, riskScore |-> riskScore,
   createdHour |-> createdHour]

\* the row 'txn-001' of the seed script
SEED_TXN_ID == Uuid(1)

\* SELECT ... FROM users WHERE email = ? / WHERE id = ?: the position of the row, or 0
DbFindByEmail(email) == FindFirst({i \in 1..Len(dbUsers) : dbUsers[i].email = email})
DbFindById(id) == FindFirst({i \in 1..Len(dbUsers) : dbUsers[i].id = id})

\* AuthService.validateSession with its three reads taken in one state: the
\* position of the user's row, or NoUser for null
AuthValidateSession(token) ==
  LET payload == VerifyJWT(token, JWT_SECRET)
      u == DbFindById(payload.userId)
  IN IF payload = NullPayload \/ payload.exp < now THEN NoUser
     ELSE IF payload.sessionId \notin DOMAIN dbSessions THEN NoUser
     ELSE IF dbSessions[payload.sessionId].expiresAt < now THEN NoUser
     ELSE IF u = NoUser THEN NoUser
     ELSE IF ~dbUsers[u].isActive THEN NoUser
     ELSE u

\* ------------------------------------------------------------- transactions
SYSTEM_DEPOSIT == "SYSTEM_DEPOSIT"
SYSTEM_WITHDRAWAL == "SYSTEM_WITHDRAWAL"

RiskScoreHeavier(existing, data) ==
  (IF data.amountInZAR > R(50000) THEN 60
   ELSE IF data.amountInZAR > R(10000) THEN 15 ELSE 0)
  + (IF data.type = "international_transfer" THEN 20 ELSE 0)
  + (IF \A i \in 1..Len(existing) :
          ~(existing[i].fromAccountNumber = data.fromAccountNumber
            /\ existing[i].toAccountNumber = data.toAccountNumber)
     THEN 25 ELSE 0)

\* the risk score of SecureDatabase.createTransaction, over the records kept
RiskScore(existing, data) ==
  (IF data.amountInZAR > R(50000) THEN 30
   ELSE IF data.amountInZAR > R(10000) THEN 15 ELSE 0)
  + (IF data.type = "international_transfer" THEN 20 ELSE 0)
  + (IF \A i \in 1..Len(existing) :
          ~(existing[i].fromAccountNumber = data.fromAccountNumber
            /\ existing[i].toAccountNumber = data.toAccountNumber)
     THEN 25 ELSE 0)

\* the record SecureDatabase.createTransaction pushes and returns
NewTransaction(existing, data, at) ==
  [id |-> Len(existing) + 1,
   fromAccountNumber |-> data.fromAccountNumber,
   toAccountNumber |-> data.toAccountNumber,
   amountInZAR |-> data.amountInZAR,
   fees |-> data.fees,
   type |-> data.type,
   status |-> data.status,
   createdAt |-> at,
   completedAt |-> data.completedAt,
   riskScore |-> RiskScore(existing, data)]

CreateTransaction(data) == Append(transactions, NewTransaction(transactions, data, now))

\* Array.prototype.sort with (a, b) => b.createdAt - a.createdAt: stable, newest first
RECURSIVE SortNewestFirst(_)
SortNewestFirst(s) ==
  IF Len(s) <= 1 THEN s
  ELSE LET x == s[Len(s)]
           front == SortNewestFirst(SubSeq(s, 1, Len(s) - 1))
           keep == {i \in 1..Len(front) : front[i].createdAt >= x.createdAt}
           k == Cardinality(keep)
       IN SubSeq(front, 1, k) \o <<x>> \o SubSeq(front, k + 1, Len(front))

\* SecureDatabase.getAllTransactions sorts secureStorage.transactions in place
GetAllTransactions == SortNewestFirst(transactions)

\* SecureDatabase.updateUserBalance
UpdateUserBalance(userId, newBalance) ==
  LET u == FindUserById(userId)
  IN IF u = NoUser THEN users ELSE [users EXCEPT ![u].balance = newBalance]

\* validateTransactionAmount: finite, > 0, <= 1,000,000, at most 2 decimals
ValidateTransactionAmount(amount) ==
  amount > 0 /\ amount <= R(1000000) /\ amount % 10 = 0

\* ------------------------------------------------------------------ requests
Idle == [pc |-> "idle", op |-> "none", seq |-> 0, token |-> GarbageToken, user |-> NoUser,
         arg |-> <<>>, resp |-> "none"]

\* the e-mail address a login request names
About(op, arg) == IF op \in {"login", "authenticateUser"} THEN arg.email ELSE "none"

\* the response to a request: the operation, the position of the request in
\* the order of arrival, the e-mail address a login named, the user it was
\* served for, the token that came with it, the outcome, and what the error
\* message adds to the outcome
\* the fields of a stored SecureUser
SecureUserFields ==
  {"id", "email", "passwordHash", "passwordSalt", "firstName", "lastName", "role",
   "accountNumber", "balance", "isActive", "createdAt", "lastLogin",
   "failedLoginAttempts", "lockedUntil", "sessionId", "twoFactorEnabled", "loginHistory"}

\* the columns UserRepository.findById selects
FindByIdColumns ==
  {"id", "email", "firstName", "lastName", "role", "accountNumber", "balance",
   "isActive", "twoFactorEnabled", "failedLoginAttempts", "lockedUntil", "lastLogin",
   "createdAt", "updatedAt"}

\* the columns UserRepository.findByEmailWithPassword selects
FindByEmailWithPasswordColumns == FindByIdColumns \cup {"passwordHash", "passwordSalt"}

\* const { passwordHash, passwordSalt, sessionId, loginHistory, ...safeUser } = user
RouteSafeUser(fields) == fields \ {"passwordHash", "passwordSalt", "sessionId", "loginHistory"}

\* The fields of the account value a successful answer carries: authenticateUser
\* returns the stored user, AuthService.authenticate strips hash and salt from
\* the row, the verify, admin users and create user routes strip four fields,
\* and AuthService.validateSession returns the row findById selected.
AccountView(op, resp) ==
  IF resp # "ok" THEN {}
  ELSE IF op = "authenticateUser" THEN SecureUserFields
  ELSE IF op = "login" THEN FindByEmailWithPasswordColumns \ {"passwordHash", "passwordSalt"}
  ELSE IF op \in {"verify", "adminListUsers", "createUser"} THEN RouteSafeUser(SecureUserFields)
  ELSE IF op = "verifyDb" THEN FindByIdColumns
  ELSE {}

Response(op, seq, about, user, token, resp) ==
  [op |-> op, seq |-> seq, about |-> about, user |-> user, token |-> token, resp |-> resp,
   detail |-> <<>>, view |-> AccountView(op, resp)]

NoResponse == Response("none", 0, "none", NoUser, GarbageToken, "none")

\* A request starts in a free slot; one that is answered before its first await
\* (pc = "done") never occupies the slot.
Begin(p, op, token, arg, pc, user, resp, budget) ==
  /\ req[p].pc = "idle"
  /\ nreq < budget
  /\ nreq' = nreq + 1
  /\ IF pc = "done"
       THEN /\ req' = req
            /\ last' = Response(op, nreq + 1, About(op, arg), user, token, resp)
       ELSE /\ req' = [req EXCEPT ![p] = [pc |-> pc, op |-> op, seq |-> nreq + 1,
                                          token |-> token,
                                          user |-> user, arg |-> arg, resp |-> resp]]
            /\ last' = last

ReplyWith(p, token, resp) ==
  /\ req' = [req EXCEPT ![p] = Idle]
  /\ last' = Response(req[p].op, req[p].seq, About(req[p].op, req[p].arg), req[p].user,
                      token, resp)

Reply(p, resp) == ReplyWith(p, req[p].token, resp)

\* "Invalid credentials. ${5 - attempts} attempts remaining."
ReplyRemaining(p, resp, remaining) ==
  /\ req' = [req EXCEPT ![p] = Idle]
  /\ last' = [Response(req[p].op, req[p].seq, About(req[p].op, req[p].arg), req[p].user,
                       req[p].token, resp) EXCEPT !.detail = <<remaining>>]

\* a response that names the user the request was about
ReplyFor(p, user, resp) ==
  /\ req' = [req EXCEPT ![p] = Idle]
  /\ last' = Response(req[p].op, req[p].seq, About(req[p].op, req[p].arg), user,
                      req[p].token, resp)

Presentable == tokens \cup {GarbageToken}

\* ------------------------------------------------------------------- initial
Init ==
  /\ now = 0
  /\ userLimits = <<>>
  /\ ticks = 0
  /\ users = << SecureUser(1, ADMIN_EMAIL, ADMIN_PASSWORD, "admin", ADMIN_ACCOUNT, R(50000)),
                SecureUser(2, CUSTOMER_EMAIL, CUSTOMER_PASSWORD, "customer",
                           CUSTOMER_ACCOUNT, R(25000)) >>
  /\ sessions = <<>>
  /\ transactions = << NewTransaction(<<>>,
         [fromAccountNumber |-> SYSTEM_DEPOSIT, toAccountNumber |-> CUSTOMER_ACCOUNT,
          amountInZAR |-> R(25000), fees |-> 0, type |-> "deposit",
          status |-> "completed", completedAt |-> 0], 0) >>
  /\ timers = {}
  /\ rateLimitStore = <<>>
  /\ dbUsers = << DbUser(DB_CUSTOMER_ID, CUSTOMER_EMAIL, CUSTOMER_PASSWORD, "customer",
                          CUSTOMER_ACCOUNT, R(25000)) >>
  /\ dbSessions = <<>>
  /\ dbLoginHistory = <<>>
  /\ dbTransactions = << DbTransaction(SEED_TXN_ID,
         [fromAccountNumber |-> SYSTEM_DEPOSIT, toAccountNumber |-> CUSTOMER_ACCOUNT,
          amountInZar |-> R(25000), fees |-> 0, transactionType |-> "deposit"],
         "completed", 0, 0, 12) >>
  /\ rateCalls = <<>>
  /\ tokens = {}
  /\ fresh = 0
  /\ req = [p \in Procs |-> Idle]
  /\ last = NoResponse
  /\ nreq = 0

\* The clock advances by d.
Tick(d) ==
  /\ ticks < MaxTicks
  /\ now' = now + d
  /\ ticks' = ticks + 1
  /\ UNCHANGED <<userLimits, users, sessions, transactions, timers, rateLimitStore,
                 dbUsers, dbSessions, dbLoginHistory, tokens, fresh, req, last, nreq,
                 dbTransactions, rateCalls>>

\* ------------------------------------------- SecureDatabase.authenticateUser
UNKNOWN_EMAIL == "nobody@example.com"
MALFORMED_EMAIL == "not-an-email"

\* validateInput(email, SecurityPatterns.email) on the addresses used here
ValidEmail(email) == email # MALFORMED_EMAIL

\* sanitizeInput leaves the addresses used here as they are
SanitizeInput(input) == input

\* Up to the await on verifyPassword: lookup, lock check, active check.
SecAuthStart(p, email, password, budget) ==
  LET u == FindUserByEmail(SanitizeInput(email))
      arg == [email |-> email, password |-> password]
  IN /\ IF ~ValidEmail(email)
          THEN Begin(p, "authenticateUser", GarbageToken, arg, "done", NoUser, "InvalidEmail", budget)
        ELSE IF u = NoUser
          THEN Begin(p, "authenticateUser", GarbageToken, arg, "done", NoUser, "InvalidCredentials", budget)
        ELSE IF Locked(users[u].lockedUntil)
          THEN Begin(p, "authenticateUser", GarbageToken, arg, "done", u, "AccountLocked", budget)
        ELSE IF ~users[u].isActive
          THEN Begin(p, "authenticateUser", GarbageToken, arg, "done", u, "AccountInactive", budget)
        ELSE Begin(p, "authenticateUser", GarbageToken, arg, "verify", u, "none", budget)
     /\ UNCHANGED <<userLimits, now, ticks, users, sessions, transactions, timers, rateLimitStore,
                    dbUsers, dbSessions, dbLoginHistory, tokens, fresh,
                    dbTransactions, rateCalls>>

KeepLast(h, n) == IF Len(h) > n THEN SubSeq(h, Len(h) - n + 1, Len(h)) ELSE h

\* After the await: the password decides.
SecAuthFinish(p) ==
  LET u == req[p].user
      user == users[u]
      sid == TokId(fresh + 1)
      sessionExpiry == now + SESSION_TTL
      token == GenerateJWT([userId |-> user.id, sessionId |-> sid, role |-> user.role,
                            exp |-> sessionExpiry], JWT_SECRET)
      attempts == user.failedLoginAttempts + 1
  IN /\ req[p].pc = "verify"
     /\ req[p].op = "authenticateUser"
     /\ IF ~VerifyPassword(req[p].arg.password, user.passwordHash, user.passwordSalt)
          THEN /\ users' = [users EXCEPT
                     ![u].failedLoginAttempts = attempts,
                     ![u].lockedUntil = IF attempts >= LOCK_THRESHOLD
                                          THEN now + LOCK_DURATION ELSE @,
                     ![u].loginHistory = Append(@, FALSE)]
               /\ ReplyRemaining(p, "InvalidCredentials", LOCK_THRESHOLD - attempts)
               /\ UNCHANGED <<sessions, tokens, fresh>>
          ELSE /\ users' = [users EXCEPT
                     ![u].failedLoginAttempts = 0,
                     ![u].lockedUntil = Undefined,
                     ![u].sessionId = sid,
                     ![u].loginHistory = KeepLast(Append(@, TRUE), HISTORY_KEEP)]
               /\ sessions' = sessions @@ (sid :> [userId |-> user.id, expiresAt |-> sessionExpiry])
               /\ tokens' = tokens \cup {token}
               /\ fresh' = fresh + 1
               /\ ReplyWith(p, token, "ok")
     /\ UNCHANGED <<userLimits, now, ticks, transactions, timers, rateLimitStore,
                    dbUsers, dbSessions, dbLoginHistory, nreq,
                    dbTransactions, rateCalls>>

\* SecureDatabase.logoutUser
SecLogoutUser(sid, budget) ==
  LET u == FindUserBySession(sid)
  IN /\ nreq < budget
     /\ nreq' = nreq + 1
     /\ sessions' = [s \in DOMAIN sessions \ {sid} |-> sessions[s]]
     /\ users' = IF u = NoUser THEN users ELSE [users EXCEPT ![u].sessionId = NoId]
     /\ UNCHANGED <<userLimits, now, ticks, transactions, timers, rateLimitStore,
                    dbUsers, dbSessions, dbLoginHistory, tokens, fresh, req, last,
                    dbTransactions, rateCalls>>

\* SecureDatabase.cleanupExpiredSessions, run by the hourly interval
CleanupExpiredSessions ==
  /\ \E s \in DOMAIN sessions : sessions[s].expiresAt < now
  /\ sessions' = [s \in {x \in DOMAIN sessions : ~(sessions[x].expiresAt < now)} |-> sessions[s]]
  /\ UNCHANGED <<userLimits, now, ticks, users, transactions, timers, rateLimitStore,
                 dbUsers, dbSessions, dbLoginHistory, tokens, fresh, req, last, nreq,
                 dbTransactions, rateCalls>>

\* --------------------------------------------------------- route handlers
\* Every protected route starts with SecureDatabase.validateSession and its
\* gate, and then awaits the request body.
AdminOps == {"toggleUserStatus", "createUser", "adminListUsers", "adminListTransactions"}

GateRoleUnchecked(op, u) ==
  IF u = NoUser \/ ~users[u].isActive THEN "Unauthorized" ELSE "pass"

Gate(op, u) ==
  IF op \in AdminOps
    THEN IF u = NoUser \/ users[u].role # "admin" THEN "Forbidden" ELSE "pass"
  ELSE IF u = NoUser \/ ~users[u].isActive THEN "Unauthorized" ELSE "pass"

RouteStart(p, op, token, arg, budget) ==
  LET u == SecValidateSession(token)
  IN /\ IF Gate(op, u) = "pass"
          THEN Begin(p, op, token, arg, "body", u, "none", budget)
          ELSE Begin(p, op, token, arg, "done", NoUser, Gate(op, u), budget)
     /\ UNCHANGED <<userLimits, now, ticks, users, sessions, transactions, timers, rateLimitStore,
                    dbUsers, dbSessions, dbLoginHistory, tokens, fresh,
                    dbTransactions, rateCalls>>

MALFORMED_ACCOUNT == "62-0001"
EXTERNAL_ACCOUNT == "4000000009"
GOOD_REFERENCE == "INV-1"
BAD_REFERENCE == "<b>INV</b>"

\* validateInput(_, SecurityPatterns.accountNumber / reference) on the inputs used here
ValidAccountNumber(a) == a # MALFORMED_ACCOUNT
ValidReference(r) == r # BAD_REFERENCE

TRANSFER_LIMIT == R(100000)
WITHDRAW_LIMIT == R(50000)
DEPOSIT_LIMIT == R(500000)
WITHDRAW_FEE_CAP == R(50)

Min(a, b) == IF a <= b THEN a ELSE b

InsufficientBalanceUnchecked(totalDebit, balance) == FALSE

\* totalDebit > user.balance
InsufficientBalance(totalDebit, balance) == totalDebit > balance

TransferOutcomeNoLimit(arg, balance) ==
  IF ~ValidAccountNumber(arg.recipientAccount) THEN "ValidationError"
  ELSE IF ~ValidReference(arg.reference) THEN "ValidationError"
  ELSE IF ~ValidateTransactionAmount(arg.zarAmount) THEN "ValidationError"
  ELSE IF ~ValidateTransactionAmount(arg.fees) THEN "ValidationError"
  ELSE IF InsufficientBalance(arg.zarAmount + arg.fees, balance) THEN "InsufficientFunds"
  ELSE "ok"

\* international transfer route: the checks, in the order of the source
TransferOutcome(arg, balance) ==
  IF ~ValidAccountNumber(arg.recipientAccount) THEN "ValidationError"
  ELSE IF ~ValidReference(arg.reference) THEN "ValidationError"
  ELSE IF ~ValidateTransactionAmount(arg.zarAmount) THEN "ValidationError"
  ELSE IF ~ValidateTransactionAmount(arg.fees) THEN "ValidationError"
  ELSE IF InsufficientBalance(arg.zarAmount + arg.fees, balance) THEN "InsufficientFunds"
  ELSE IF arg.zarAmount > TRANSFER_LIMIT THEN "LimitExceeded"
  ELSE "ok"

TransferData(user, arg) ==
  [fromAccountNumber |-> user.accountNumber, toAccountNumber |-> arg.recipientAccount,
   amountInZAR |-> arg.zarAmount, fees |-> arg.fees, type |-> "international_transfer",
   status |-> "pending", completedAt |-> Undefined]

RecordedAlways(outcome, data) == CreateTransaction(data)

\* the record is created only once every check has passed
Recorded(outcome, data) == IF outcome = "ok" THEN CreateTransaction(data) ELSE transactions

SettledNever(outcome, userId, newBalance) == users

\* the balance is written only once every check has passed
Settled(outcome, userId, newBalance) ==
  IF outcome = "ok" THEN UpdateUserBalance(userId, newBalance) ELSE users

\* 500 "Failed to update balance" when updateUserBalance finds no user
Answer(outcome, userId) ==
  IF outcome = "ok" /\ FindUserById(userId) = NoUser THEN "InternalFailure" ELSE outcome

TransferBody(p) ==
  LET user == users[req[p].user]
      arg == req[p].arg
      outcome == TransferOutcome(arg, user.balance)
      totalDebit == arg.zarAmount + arg.fees
  IN /\ req[p].pc = "body"
     /\ req[p].op = "transfer"
     /\ transactions' = Recorded(outcome, TransferData(user, arg))
     /\ users' = Settled(outcome, user.id, user.balance - totalDebit)
     /\ timers' = IF outcome = "ok" THEN timers \cup {Len(transactions) + 1} ELSE timers
     /\ Reply(p, Answer(outcome, user.id))
     /\ UNCHANGED <<userLimits, now, ticks, sessions, rateLimitStore, dbUsers, dbSessions,
                    dbLoginHistory, tokens, fresh, nreq,
                    dbTransactions, rateCalls>>

CompleteTransferLost(id) ==
  /\ id \in timers
  /\ timers' = timers \ {id}
  /\ transactions' = GetAllTransactions
  /\ UNCHANGED <<userLimits, now, ticks, users, sessions, rateLimitStore, dbUsers, dbSessions,
                 dbLoginHistory, dbTransactions, rateCalls, tokens, fresh, req, last, nreq>>

\* the callback of setTimeout(..., 5000) in the transfer route
CompleteTransfer(id) ==
  LET sorted == GetAllTransactions
      hits == {i \in 1..Len(sorted) : sorted[i].id = id}
  IN /\ id \in timers
     /\ timers' = timers \ {id}
     /\ transactions' = [i \in 1..Len(sorted) |->
                           IF i \in hits
                             THEN [sorted[i] EXCEPT !.status = "completed", !.completedAt = now]
                             ELSE sorted[i]]
     /\ UNCHANGED <<userLimits, now, ticks, users, sessions, rateLimitStore, dbUsers, dbSessions,
                    dbLoginHistory, tokens, fresh, req, last, nreq,
                    dbTransactions, rateCalls>>

WithdrawalFeeOnePercent(amount) == Min(amount \div 100, WITHDRAW_FEE_CAP)

\* Math.min(amount * 0.001, 50), exact for whole rands
WithdrawalFee(amount) == Min(amount \div 1000, WITHDRAW_FEE_CAP)

WithdrawOutcome(arg, balance) ==
  IF ~ValidateTransactionAmount(arg.amount) THEN "ValidationError"
  ELSE IF arg.amount > WITHDRAW_LIMIT THEN "LimitExceeded"
  ELSE IF InsufficientBalance(arg.amount + WithdrawalFee(arg.amount), balance)
    THEN "InsufficientFunds"
  ELSE "ok"

WithdrawData(user, arg) ==
  [fromAccountNumber |-> user.accountNumber, toAccountNumber |-> SYSTEM_WITHDRAWAL,
   amountInZAR |-> arg.amount, fees |-> WithdrawalFee(arg.amount), type |-> "withdrawal",
   status |-> "completed", completedAt |-> now]

WithdrawBody(p) ==
  LET user == users[req[p].user]
      arg == req[p].arg
      outcome == WithdrawOutcome(arg, user.balance)
      totalDebit == arg.amount + WithdrawalFee(arg.amount)
  IN /\ req[p].pc = "body"
     /\ req[p].op = "withdraw"
     /\ transactions' = Recorded(outcome, WithdrawData(user, arg))
     /\ users' = Settled(outcome, user.id, user.balance - totalDebit)
     /\ Reply(p, Answer(outcome, user.id))
     /\ UNCHANGED <<userLimits, now, ticks, sessions, timers, rateLimitStore, dbUsers, dbSessions,
                    dbLoginHistory, tokens, fresh, nreq,
                    dbTransactions, rateCalls>>

DepositOutcome(arg) ==
  IF ~ValidateTransactionAmount(arg.amount) THEN "ValidationError"
  ELSE IF arg.amount > DEPOSIT_LIMIT THEN "LimitExceeded"
  ELSE "ok"

DepositDataPending(user, arg) ==
  [fromAccountNumber |-> SYSTEM_DEPOSIT, toAccountNumber |-> user.accountNumber,
   amountInZAR |-> arg.amount, fees |-> 0, type |-> "deposit",
   status |-> "pending", completedAt |-> Undefined]

DepositData(user, arg) ==
  [fromAccountNumber |-> SYSTEM_DEPOSIT, toAccountNumber |-> user.accountNumber,
   amountInZAR |-> arg.amount, fees |-> 0, type |-> "deposit",
   status |-> "completed", completedAt |-> now]

DepositBody(p) ==
  LET user == users[req[p].user]
      arg == req[p].arg
      outcome == DepositOutcome(arg)
  IN /\ req[p].pc = "body"
     /\ req[p].op = "deposit"
     /\ transactions' = Recorded(outcome, DepositData(user, arg))
     /\ users' = Settled(outcome, user.id, user.balance + arg.amount)
     /\ Reply(p, Answer(outcome, user.id))
     /\ UNCHANGED <<userLimits, now, ticks, sessions, timers, rateLimitStore, dbUsers, dbSessions,
                    dbLoginHistory, tokens, fresh, nreq,
                    dbTransactions, rateCalls>>

\* ------------------------------------------------ admin: create user route
NEW_EMAIL == "new.user@example.com"
STRONG_PASSWORD == "NewUser123!"
WEAK_PASSWORD == "password1"

\* validatePasswordStrength / SecurityPatterns.password on the passwords used here
ValidPassword(password) == password # WEAK_PASSWORD

\* Up to the await on hashPassword: password strength, then the checks of
\* SecureDatabase.createUser.
CreateUserBody(p) ==
  LET arg == req[p].arg
  IN /\ req[p].pc = "body"
     /\ req[p].op = "createUser"
     /\ IF ~ValidPassword(arg.password) \/ ~ValidEmail(arg.email)
          THEN Reply(p, "ValidationError")
        ELSE IF FindUserByEmail(SanitizeInput(arg.email)) # NoUser
          THEN Reply(p, "EmailExists")
        ELSE /\ req' = [req EXCEPT ![p].pc = "hash"]
             /\ last' = last
     /\ UNCHANGED <<userLimits, now, ticks, users, sessions, transactions, timers, rateLimitStore,
                    dbUsers, dbSessions, dbLoginHistory, tokens, fresh, nreq,
                    dbTransactions, rateCalls>>

\* After the await: the account number is drawn, the user is pushed and, for a
\* positive initial balance, the initial deposit is recorded.
CreateUserFinish(p, accountNumber) ==
  LET arg == req[p].arg
      id == Len(users) + 1
      newUser == SecureUser(id, SanitizeInput(arg.email), arg.password, "customer",
                            accountNumber, arg.initialBalance)
  IN /\ req[p].pc = "hash"
     /\ req[p].op = "createUser"
     /\ users' = Append(users, newUser)
     /\ transactions' =
          IF arg.initialBalance > 0
            THEN CreateTransaction(
                   [fromAccountNumber |-> SYSTEM_DEPOSIT, toAccountNumber |-> accountNumber,
                    amountInZAR |-> arg.initialBalance, fees |-> 0, type |-> "deposit",
                    status |-> "completed", completedAt |-> now])
            ELSE transactions
     /\ Reply(p, "ok")
     /\ UNCHANGED <<userLimits, now, ticks, sessions, timers, rateLimitStore, dbUsers, dbSessions,
                    dbLoginHistory, tokens, fresh, nreq,
                    dbTransactions, rateCalls>>

\* ------------------------------------------------------------ rate limiter
LoginKey(ip) == <<"login", ip>>

RateAllowedAtLimit(identifier, maxAttempts) ==
  \/ identifier \notin DOMAIN rateLimitStore
  \/ now > rateLimitStore[identifier].resetTime
  \/ rateLimitStore[identifier].count <= maxAttempts

\* checkRateLimit: what it returns, and the store it leaves
RateAllowed(identifier, maxAttempts) ==
  \/ identifier \notin DOMAIN rateLimitStore
  \/ now > rateLimitStore[identifier].resetTime
  \/ rateLimitStore[identifier].count < maxAttempts

RateStoreAfterSliding(identifier, maxAttempts, windowMs) ==
  IF identifier \notin DOMAIN rateLimitStore \/ now > rateLimitStore[identifier].resetTime
    THEN (identifier :> [count |-> 1, resetTime |-> now + windowMs]) @@ rateLimitStore
  ELSE IF rateLimitStore[identifier].count >= maxAttempts
    THEN [rateLimitStore EXCEPT ![identifier].resetTime = now + windowMs]
  ELSE [rateLimitStore EXCEPT ![identifier].count = @ + 1]

RateStoreAfter(identifier, maxAttempts, windowMs) ==
  IF identifier \notin DOMAIN rateLimitStore \/ now > rateLimitStore[identifier].resetTime
    THEN (identifier :> [count |-> 1, resetTime |-> now + windowMs]) @@ rateLimitStore
  ELSE IF rateLimitStore[identifier].count >= maxAttempts THEN rateLimitStore
  ELSE [rateLimitStore EXCEPT ![identifier].count = @ + 1]

\* ------------------------------------- login route / AuthService.authenticate
NoRow == [id |-> NoId]

\* UserRepository.logLoginAttempt: one more row in table login_history, which
\* is kept as the number of rows of each content
LogLoginAttempt(userId, success, failureReason) ==
  LET row == [userId |-> userId, success |-> success, reason |-> failureReason]
  IN IF row \in DOMAIN dbLoginHistory
       THEN [dbLoginHistory EXCEPT ![row] = @ + 1]
       ELSE (row :> 1) @@ dbLoginHistory

LoginStartCounted(p, ip, email, password, budget) ==
  LET arg == [email |-> email, password |-> password, ip |-> ip, row |-> NoRow]
  IN /\ IF ~RateAllowed(LoginKey(ip), RATE_MAX)
          THEN /\ Begin(p, "login", GarbageToken, arg, "done", NoUser, "RateLimited", budget)
               /\ dbLoginHistory' = LogLoginAttempt(DB_CUSTOMER_ID, FALSE, "Rate limited")
          ELSE /\ Begin(p, "login", GarbageToken, arg, "find", NoUser, "none", budget)
               /\ UNCHANGED dbLoginHistory
     /\ rateLimitStore' = RateStoreAfter(LoginKey(ip), RATE_MAX, RATE_WINDOW)
     /\ UNCHANGED <<userLimits, now, ticks, users, sessions, transactions, timers,
                    dbUsers, dbSessions, tokens, fresh, dbTransactions, rateCalls>>

\* The route up to its first await: the rate limiter decides.
LoginStart(p, ip, email, password, budget) ==
  LET arg == [email |-> email, password |-> password, ip |-> ip, row |-> NoRow]
  IN /\ IF ~RateAllowed(LoginKey(ip), RATE_MAX)
          THEN Begin(p, "login", GarbageToken, arg, "done", NoUser, "RateLimited", budget)
          ELSE Begin(p, "login", GarbageToken, arg, "find", NoUser, "none", budget)
     /\ rateLimitStore' = RateStoreAfter(LoginKey(ip), RATE_MAX, RATE_WINDOW)
     /\ UNCHANGED <<userLimits, now, ticks, users, sessions, transactions, timers,
                    dbUsers, dbSessions, dbLoginHistory, tokens, fresh,
                    dbTransactions, rateCalls>>

\* findByEmailWithPassword has answered: lock check, then active check.  The
\* row read here is what the rest of the request works with.
LoginFind(p) ==
  LET arg == req[p].arg
      u == DbFindByEmail(arg.email)
      row == dbUsers[u]
  IN /\ req[p].pc = "find"
     /\ req[p].op = "login"
     /\ IF ~ValidEmail(arg.email)
          THEN Reply(p, "InvalidEmail") /\ UNCHANGED dbLoginHistory
        ELSE IF u = NoUser
          THEN Reply(p, "InvalidCredentials") /\ UNCHANGED dbLoginHistory
        ELSE IF Locked(row.lockedUntil)
          THEN /\ dbLoginHistory' = LogLoginAttempt(row.id, FALSE, "Account locked")
               /\ ReplyFor(p, u, "AccountLocked")
        ELSE IF ~row.isActive
          THEN /\ dbLoginHistory' = LogLoginAttempt(row.id, FALSE, "Account deactivated")
               /\ ReplyFor(p, u, "AccountInactive")
        ELSE /\ req' = [req EXCEPT ![p].pc = "verify", ![p].user = u, ![p].arg.row = row]
             /\ last' = last
             /\ UNCHANGED dbLoginHistory
     /\ UNCHANGED <<userLimits, now, ticks, users, sessions, transactions, timers, rateLimitStore,
                    dbUsers, dbSessions, tokens, fresh, nreq,
                    dbTransactions, rateCalls>>

DbUpdateUserNoLock(id, attempts, lockedUntil) ==
  [i \in 1..Len(dbUsers) |->
     IF dbUsers[i].id = id
       THEN [dbUsers[i] EXCEPT !.failedLoginAttempts = attempts]
       ELSE dbUsers[i]]

\* UPDATE users SET failed_login_attempts = ?, locked_until = ? WHERE id = ?
DbUpdateUser(id, attempts, lockedUntil) ==
  [i \in 1..Len(dbUsers) |->
     IF dbUsers[i].id = id
       THEN [dbUsers[i] EXCEPT !.failedLoginAttempts = attempts, !.lockedUntil = lockedUntil]
       ELSE dbUsers[i]]

\* verifyPassword has answered.  A wrong password: updateLoginAttempts with the
\* count of the row read before, plus one, and logLoginAttempt.  The right one:
\* updateLastLogin and logLoginAttempt.
LoginVerify(p) ==
  LET row == req[p].arg.row
      newAttempts == row.failedLoginAttempts + 1
      lockedUntil == IF newAttempts >= LOCK_THRESHOLD THEN now + LOCK_DURATION ELSE Undefined
  IN /\ req[p].pc = "verify"
     /\ req[p].op = "login"
     /\ IF ~VerifyPassword(req[p].arg.password, row.passwordHash, row.passwordSalt)
          THEN /\ dbUsers' = DbUpdateUser(row.id, newAttempts, lockedUntil)
               /\ dbLoginHistory' = LogLoginAttempt(row.id, FALSE, "Invalid password")
               /\ ReplyRemaining(p, "InvalidCredentials", LOCK_THRESHOLD - newAttempts)
          ELSE /\ dbUsers' = DbUpdateUser(row.id, 0, Undefined)
               /\ dbLoginHistory' = LogLoginAttempt(row.id, TRUE, "none")
               /\ req' = [req EXCEPT ![p].pc = "session"]
               /\ last' = last
     /\ UNCHANGED <<userLimits, now, ticks, users, sessions, transactions, timers, rateLimitStore,
                    dbSessions, tokens, fresh, nreq,
                    dbTransactions, rateCalls>>

\* SessionRepository.create, generateJWT and the response
LoginSession(p) ==
  LET row == req[p].arg.row
      sid == Uuid(fresh + 1)
      expiresAt == now + SESSION_TTL
      token == GenerateJWT([userId |-> row.id, sessionId |-> sid, role |-> row.role,
                            exp |-> expiresAt], JWT_SECRET)
  IN /\ req[p].pc = "session"
     /\ req[p].op = "login"
     /\ dbSessions' = (sid :> [userId |-> row.id, expiresAt |-> expiresAt]) @@ dbSessions
     /\ tokens' = tokens \cup {token}
     /\ fresh' = fresh + 1
     /\ ReplyWith(p, token, "ok")
     /\ UNCHANGED <<userLimits, now, ticks, users, sessions, transactions, timers, rateLimitStore,
                    dbUsers, dbLoginHistory, nreq,
                    dbTransactions, rateCalls>>

\* ------------------------------------------------------------ verify routes
\* GET verify over SecureDatabase: no await, answered at once
SecVerifySliding(p, token, budget) ==
  LET u == SecValidateSession(token)
      payload == VerifyJWT(token, JWT_SECRET)
  IN /\ Begin(p, "verify", token, <<>>, "done", u,
              IF u = NoUser THEN "Unauthorized" ELSE "ok", budget)
     /\ sessions' = IF u = NoUser THEN sessions
                    ELSE [sessions EXCEPT ![payload.sessionId].expiresAt = now + SESSION_TTL]
     /\ UNCHANGED <<userLimits, now, ticks, users, transactions, timers, rateLimitStore,
                    dbUsers, dbSessions, dbLoginHistory, tokens, fresh,
                    dbTransactions, rateCalls>>

SecVerify(p, token, budget) ==
  LET u == SecValidateSession(token)
  IN /\ Begin(p, "verify", token, <<>>, "done", u,
              IF u = NoUser THEN "Unauthorized" ELSE "ok", budget)
     /\ UNCHANGED <<userLimits, now, ticks, users, sessions, transactions, timers, rateLimitStore,
                    dbUsers, dbSessions, dbLoginHistory, tokens, fresh,
                    dbTransactions, rateCalls>>

\* GET verify over AuthService.validateSession: verifyJWT and the expiry of the
\* payload, then the session row, then the user row, an await before each read
AuthVerifyStart(p, token, budget) ==
  LET payload == VerifyJWT(token, JWT_SECRET)
  IN /\ IF payload = NullPayload \/ payload.exp < now
          THEN Begin(p, "verifyDb", token, <<>>, "done", NoUser, "Unauthorized", budget)
          ELSE Begin(p, "verifyDb", token, <<>>, "session", NoUser, "none", budget)
     /\ UNCHANGED <<userLimits, now, ticks, users, sessions, transactions, timers, rateLimitStore,
                    dbUsers, dbSessions, dbLoginHistory, tokens, fresh,
                    dbTransactions, rateCalls>>

AuthVerifySession(p) ==
  LET payload == VerifyJWT(req[p].token, JWT_SECRET)
  IN /\ req[p].pc = "session"
     /\ req[p].op = "verifyDb"
     /\ IF payload.sessionId \notin DOMAIN dbSessions
          THEN Reply(p, "Unauthorized")
        ELSE IF dbSessions[payload.sessionId].expiresAt < now
          THEN Reply(p, "Unauthorized")
        ELSE /\ req' = [req EXCEPT ![p].pc = "user"]
             /\ last' = last
     /\ UNCHANGED <<userLimits, now, ticks, users, sessions, transactions, timers, rateLimitStore,
                    dbUsers, dbSessions, dbLoginHistory, tokens, fresh, nreq,
                    dbTransactions, rateCalls>>

AuthVerifyUser(p) ==
  LET payload == VerifyJWT(req[p].token, JWT_SECRET)
      u == DbFindById(payload.userId)
  IN /\ req[p].pc = "user"
     /\ req[p].op = "verifyDb"
     /\ IF u = NoUser \/ ~dbUsers[u].isActive
          THEN Reply(p, "Unauthorized")
          ELSE ReplyFor(p, u, "ok")
     /\ UNCHANGED <<userLimits, now, ticks, users, sessions, transactions, timers, rateLimitStore,
                    dbUsers, dbSessions, dbLoginHistory, tokens, fresh, nreq,
                    dbTransactions, rateCalls>>

\* ------------------------------------------------------------- logout route
LogoutStart(p, token, budget) ==
  /\ Begin(p, "logout", token, <<>>, "delete", NoUser, "none", budget)
  /\ UNCHANGED <<userLimits, now, ticks, users, sessions, transactions, timers, rateLimitStore,
                 dbUsers, dbSessions, dbLoginHistory, tokens, fresh,
                 dbTransactions, rateCalls>>

\* DELETE FROM sessions WHERE id = ?
DeleteSession(id) == [s \in DOMAIN dbSessions \ {id} |-> dbSessions[s]]

\* what "await AuthService.logout(token)" evaluates to: the method returns
\* Promise<void>, so the route's "success" is undefined
LogoutSuccess == FALSE

\* AuthService.logout is handed the bearer token as the session id
LogoutDelete(p) ==
  /\ req[p].pc = "delete"
  /\ req[p].op = "logout"
  /\ dbSessions' = DeleteSession(req[p].token)
  /\ Reply(p, IF LogoutSuccess THEN "ok" ELSE "InternalFailure")
  /\ UNCHANGED <<userLimits, now, ticks, users, sessions, transactions, timers, rateLimitStore,
                 dbUsers, dbLoginHistory, tokens, fresh, nreq,
                 dbTransactions, rateCalls>>

\* SessionRepository.deleteExpired
DbDeleteExpired ==
  /\ \E s \in DOMAIN dbSessions : dbSessions[s].expiresAt < now
  /\ dbSessions' = [s \in {x \in DOMAIN dbSessions : ~(dbSessions[x].expiresAt < now)} |->
                      dbSessions[s]]
  /\ UNCHANGED <<userLimits, now, ticks, users, sessions, transactions, timers, rateLimitStore,
                 dbUsers, dbLoginHistory, tokens, fresh, req, last, nreq,
                 dbTransactions, rateCalls>>

\* UserRepository.delete: the soft delete, UPDATE users SET is_active = false
DbDeactivate(id, budget) ==
  /\ nreq < budget
  /\ nreq' = nreq + 1
  /\ \E i \in 1..Len(dbUsers) : dbUsers[i].id = id /\ dbUsers[i].isActive
  /\ dbUsers' = [i \in 1..Len(dbUsers) |->
                   IF dbUsers[i].id = id THEN [dbUsers[i] EXCEPT !.isActive = FALSE]
                   ELSE dbUsers[i]]
  /\ UNCHANGED <<userLimits, now, ticks, users, sessions, transactions, timers, rateLimitStore,
                 dbSessions, dbLoginHistory, tokens, fresh, req, last,
                 dbTransactions, rateCalls>>

\* ------------------------------------------- admin: toggle user status route
\* SecureDatabase.updateUserStatus
UpdateUserStatus(userId, isActive) ==
  LET u == FindUserById(userId)
  IN IF u = NoUser THEN users ELSE [users EXCEPT ![u].isActive = isActive]

ToggleBody(p) ==
  LET arg == req[p].arg
      u == FindUserById(arg.userId)
  IN /\ req[p].pc = "body"
     /\ req[p].op = "toggleUserStatus"
     /\ users' = UpdateUserStatus(arg.userId, arg.isActive)
     /\ ReplyFor(p, u, IF u = NoUser THEN "NotFound" ELSE "ok")
     /\ UNCHANGED <<userLimits, now, ticks, sessions, transactions, timers, rateLimitStore,
                    dbUsers, dbSessions, dbLoginHistory, tokens, fresh, nreq,
                    dbTransactions, rateCalls>>

\* ------------------------------------------------------------- input sets
TransferInputs ==
  { [recipientAccount |-> a, reference |-> GOOD_REFERENCE, zarAmount |-> z, fees |-> R(100)] :
      a \in {ADMIN_ACCOUNT, EXTERNAL_ACCOUNT}, z \in {R(14900), R(100001)} }
  \cup { [recipientAccount |-> EXTERNAL_ACCOUNT, reference |-> BAD_REFERENCE,
          zarAmount |-> R(14900), fees |-> R(100)] }

WithdrawInputs == { [amount |-> a] : a \in {0, R(15000), R(50001)} }

DepositInputs == { [amount |-> a] : a \in {0, R(100000), R(500001)} }

CreateUserInputs ==
  { [email |-> NEW_EMAIL, password |-> STRONG_PASSWORD, initialBalance |-> b] :
      b \in {0, R(1000), 0 - R(100)} }
  \cup { [email |-> CUSTOMER_EMAIL, password |-> STRONG_PASSWORD, initialBalance |-> R(1000)],
          [email |-> NEW_EMAIL, password |-> WEAK_PASSWORD, initialBalance |-> R(1000)] }

\* Math.floor(Math.random() * 100000000), padded to 8 digits after "62"
AccountDraws == {"6200000002", "6291827364"}

SecureLogins == { <<CUSTOMER_EMAIL, CUSTOMER_PASSWORD>>, <<ADMIN_EMAIL, ADMIN_PASSWORD>> }

Next ==
  \/ \E p \in Procs, l \in SecureLogins : SecAuthStart(p, l[1], l[2], MaxReqs)
  \/ \E p \in Procs : SecAuthFinish(p)
  \/ \E p \in Procs, t \in Presentable, a \in TransferInputs :
        RouteStart(p, "transfer", t, a, MaxReqs)
  \/ \E p \in Procs, t \in Presentable, a \in WithdrawInputs :
        RouteStart(p, "withdraw", t, a, MaxReqs)
  \/ \E p \in Procs, t \in Presentable, a \in DepositInputs :
        RouteStart(p, "deposit", t, a, MaxReqs)
  \/ \E p \in Procs, t \in Presentable, a \in CreateUserInputs :
        RouteStart(p, "createUser", t, a, MaxReqs)
  \/ \E p \in Procs : CreateUserBody(p)
  \/ \E p \in Procs, n \in AccountDraws : CreateUserFinish(p, n)
  \/ \E p \in Procs : TransferBody(p)
  \/ \E p \in Procs : WithdrawBody(p)
  \/ \E p \in Procs : DepositBody(p)
  \/ \E id \in timers : CompleteTransfer(id)

Spec == Init /\ [][Next]_vars

\* ----------------------------------------------------------------- sessions
CLIENT_IP == "10.0.0.1"
OTHER_IP == "10.0.0.2"

ToggleInputs == { [userId |-> SeqId(2), isActive |-> FALSE] }

\* One caller's requests, one after the other; the clock, the cleanup jobs and
\* the calls made on the repositories directly come in between their steps.
SessionProcs == {1}

NextSession ==
  \/ Tick(SESSION_TTL)
  \/ \E p \in SessionProcs, l \in SecureLogins : SecAuthStart(p, l[1], l[2], MaxReqs)
  \/ \E p \in SessionProcs : SecAuthFinish(p)
  \/ \E p \in SessionProcs : LoginStart(p, CLIENT_IP, CUSTOMER_EMAIL, CUSTOMER_PASSWORD, MaxReqs)
  \/ \E p \in SessionProcs : LoginFind(p)
  \/ \E p \in SessionProcs : LoginVerify(p)
  \/ \E p \in SessionProcs : LoginSession(p)
  \/ \E p \in SessionProcs, t \in Presentable : SecVerify(p, t, MaxReqs)
  \/ \E p \in SessionProcs, t \in Presentable : AuthVerifyStart(p, t, MaxReqs)
  \/ \E p \in SessionProcs : AuthVerifySession(p)
  \/ \E p \in SessionProcs : AuthVerifyUser(p)
  \/ \E p \in SessionProcs, t \in Presentable : LogoutStart(p, t, MaxReqs)
  \/ \E p \in SessionProcs : LogoutDelete(p)
  \/ \E sid \in DOMAIN sessions : SecLogoutUser(sid, MaxReqs)
  \/ CleanupExpiredSessions
  \/ DbDeleteExpired
  \/ DbDeactivate(DB_CUSTOMER_ID, MaxReqs)
  \/ \E p \in SessionProcs, t \in Presentable, a \in ToggleInputs :
        RouteStart(p, "toggleUserStatus", t, a, MaxReqs)
  \/ \E p \in SessionProcs : ToggleBody(p)

SpecSession == Init /\ [][NextSession]_vars

\* the tokens of the two stores: SecureDatabase.authenticateUser names its
\* session by a random token, the login route by a uuid
SecTokens == {t \in tokens : t.payload.sessionId.kind = "tok"}
AuthTokens == {t \in tokens : t.payload.sessionId.kind = "uuid"}

\* the expiry a token was issued with, which is its session's expiresAt
ExpiresAt(t) == t.payload.exp

SecSessionMissing(t) == t.payload.sessionId \notin DOMAIN sessions
SecSessionExpired(t) ==
  ~SecSessionMissing(t) /\ sessions[t.payload.sessionId].expiresAt < now
SecOwnerInactive(t) ==
  \E i \in 1..Len(users) : users[i].id = t.payload.userId /\ ~users[i].isActive

AuthSessionMissing(t) == t.payload.sessionId \notin DOMAIN dbSessions
AuthSessionExpired(t) ==
  ~AuthSessionMissing(t) /\ dbSessions[t.payload.sessionId].expiresAt < now
AuthOwnerInactive(t) ==
  \E i \in 1..Len(dbUsers) : dbUsers[i].id = t.payload.userId /\ ~dbUsers[i].isActive

\* the validation of the store the token came from
Validates(t) ==
  IF t \in SecTokens THEN SecValidateSession(t) # NoUser
  ELSE AuthValidateSession(t) # NoUser

\* the session of t is there and unexpired and its owner is active
Live(t) ==
  /\ now <= ExpiresAt(t)
  /\ IF t \in SecTokens
       THEN ~SecSessionMissing(t) /\ ~SecSessionExpired(t) /\ ~SecOwnerInactive(t)
       ELSE ~AuthSessionMissing(t) /\ ~AuthSessionExpired(t) /\ ~AuthOwnerInactive(t)

ProtectedOps == {"transfer", "deposit", "withdraw", "transactions", "balance"}

\* C5: once the logout route has answered a request that carried a token of
\* the login route, that token no longer validates.
C5_LogoutRevokes ==
  (last.op = "logout" /\ last.token \in AuthTokens)
  => AuthValidateSession(last.token) = NoUser

\* C23: the logout route answers every request that carries a bearer token
\* with an acknowledgement, whether the token is valid, already logged out or
\* was never issued, and logging out again with the same token would change
\* nothing: the step that answers has left no session that a second logout
\* with the token would delete.
C23_LogoutIdempotent ==
  [][(last' # last /\ last'.op = "logout")
       => /\ last'.resp = "ok"
          /\ [s \in DOMAIN dbSessions' \ {last'.token} |-> dbSessions'[s]] = dbSessions']_vars

\* C6: a token does not validate at any time after its expiresAt, in either
\* store; and the clock alone does not take a token's validity away before
\* that: a token that validates keeps validating while the clock moves to a
\* time not after expiresAt.
C6_SessionExpiry ==
  /\ [](\A t \in tokens :
          now > ExpiresAt(t)
          => SecValidateSession(t) = NoUser /\ AuthValidateSession(t) = NoUser)
  /\ [][now' # now =>
          \A t \in tokens :
            (Validates(t) /\ now' <= ExpiresAt(t)) => Validates(t)']_vars

\* a token that a verify route accepted, and that fails now that its
\* expiresAt has passed
C6_Witness ==
  /\ last.op \in {"verify", "verifyDb"}
  /\ last.resp = "ok"
  /\ last.token \in tokens
  /\ now > ExpiresAt(last.token)
  /\ ~Validates(last.token)

\* C8: a token of the login route whose session is unexpired and not logged
\* out and whose account is active is accepted by verifySession and by the
\* session validation of every token-protected operation.
C8_LoginTokenAccepted ==
  \A t \in AuthTokens :
    Live(t) =>
      /\ AuthValidateSession(t) # NoUser
      /\ \A op \in ProtectedOps : Gate(op, SecValidateSession(t)) = "pass"

\* C9: validation returns no account for a token whose session is missing or
\* expired or whose owning account is inactive, in either store; so no token
\* of a deactivated account validates while the account stays inactive.
C9_ValidateReturnsNone ==
  \A t \in Presentable :
    /\ (SecSessionMissing(t) \/ SecSessionExpired(t) \/ SecOwnerInactive(t))
       => SecValidateSession(t) = NoUser
    /\ (AuthSessionMissing(t) \/ AuthSessionExpired(t) \/ AuthOwnerInactive(t))
       => AuthValidateSession(t) = NoUser

\* the toggle route has just deactivated the customer, who holds a token whose
\* session is still there and unexpired
C9_Witness ==
  /\ last.op = "toggleUserStatus"
  /\ last.resp = "ok"
  /\ \E t \in SecTokens :
        /\ t.payload.userId = SeqId(2)
        /\ ~SecSessionMissing(t) /\ ~SecSessionExpired(t)
        /\ SecOwnerInactive(t)
        /\ SecValidateSession(t) = NoUser

\* C10: a token keeps validating, whatever logins follow for its account, for
\* as long as its own session is there (not logged out) and unexpired and the
\* account is active.
C10_EarlierTokenSurvives == \A t \in tokens : Live(t) => Validates(t)

\* ------------------------------------------------------------------ lockout
MaxLogins == 6

LockoutProcs == {1}

LoginPasswords == {CUSTOMER_PASSWORD, WRONG_PASSWORD}

NextLockout ==
  \/ Tick(LOCK_DURATION)
  \/ \E p \in LockoutProcs, ip \in {CLIENT_IP, OTHER_IP}, pw \in LoginPasswords :
        LoginStart(p, ip, CUSTOMER_EMAIL, pw, MaxLogins)
  \/ \E p \in LockoutProcs : LoginFind(p)
  \/ \E p \in LockoutProcs : LoginVerify(p)
  \/ \E p \in LockoutProcs : LoginSession(p)

SpecLockout == Init /\ [][NextLockout]_vars

\* the rows of login_history with this content
HistoryRows(userId, success, reason) ==
  LET row == [userId |-> userId, success |-> success, reason |-> reason]
  IN IF row \in DOMAIN dbLoginHistory THEN dbLoginHistory[row] ELSE 0

\* C7, as the login route has it: a wrong password counts one more failed
\* attempt, and the attempt that brings the count to 5 locks the account for
\* the lock duration; while the account is locked, an attempt that the rate
\* limiter admits is answered AccountLocked whatever its password, and
\* changes nothing of the account; once the lock has elapsed, an attempt with
\* the right password that the rate limiter admits goes through for an
\* active account, sets failedLoginAttempts to 0, clears lockedUntil and is
\* answered with a token.
C7_Lockout ==
  [][\A p \in Procs :
       (req[p].op = "login" /\ req'[p] # req[p]) =>
         LET u == DbFindByEmail(req[p].arg.email)
             right == VerifyPassword(req[p].arg.password, dbUsers[u].passwordHash,
                                     dbUsers[u].passwordSalt)
         IN u # NoUser =>
              /\ (req[p].pc = "find" /\ Locked(dbUsers[u].lockedUntil))
                 => (last'.seq = req[p].seq /\ last'.resp = "AccountLocked" /\ dbUsers' = dbUsers)
              /\ (req[p].pc = "find" /\ ~Locked(dbUsers[u].lockedUntil) /\ dbUsers[u].isActive)
                 => req'[p].pc = "verify"
              /\ (req[p].pc = "verify" /\ ~right)
                 => /\ last'.seq = req[p].seq /\ last'.resp = "InvalidCredentials"
                    /\ dbUsers'[u].failedLoginAttempts = dbUsers[u].failedLoginAttempts + 1
                    /\ dbUsers'[u].failedLoginAttempts >= LOCK_THRESHOLD
                       => dbUsers'[u].lockedUntil = now + LOCK_DURATION
              /\ (req[p].pc = "verify" /\ right)
                 => /\ req'[p].pc = "session"
                    /\ dbUsers'[u].failedLoginAttempts = 0
                    /\ dbUsers'[u].lockedUntil = Undefined
              /\ req[p].pc = "session"
                 => (last'.seq = req[p].seq /\ last'.resp = "ok" /\ last'.token \in AuthTokens')]_vars

\* five wrong passwords in a row locked the customer, the lock has elapsed, and
\* the sixth attempt, with the right password, was answered with a token and
\* reset the account
C7_Witness ==
  /\ last.op = "login"
  /\ last.resp = "ok"
  /\ last.seq = 6
  /\ HistoryRows(DB_CUSTOMER_ID, FALSE, "Invalid password") = 5
  /\ now >= LOCK_DURATION
  /\ dbUsers[1].failedLoginAttempts = 0
  /\ dbUsers[1].lockedUntil = Undefined

\* C7 as stated: every attempt made while the account is locked is answered
\* AccountLocked.
C7_AttemptWhileLocked ==
  [][\A u \in 1..Len(dbUsers) :
       ( /\ last' # last
         /\ last'.op = "login"
         /\ last'.about = dbUsers[u].email
         /\ Locked(dbUsers[u].lockedUntil) )
       => last'.resp = "AccountLocked"]_vars

\* Two login requests in flight at once, each with a wrong password for the
\* customer's account.
NextRace ==
  \/ \E p \in Procs, ip \in {CLIENT_IP, OTHER_IP} :
        LoginStart(p, ip, CUSTOMER_EMAIL, WRONG_PASSWORD, MaxLogins)
  \/ \E p \in Procs : LoginFind(p)
  \/ \E p \in Procs : LoginVerify(p)

SpecRace == Init /\ [][NextRace]_vars

\* C18: every failed password check on an account has raised its
\* failedLoginAttempts by one, however the requests interleave, and the
\* account is locked once 5 password checks have failed.
C18_FailuresCounted ==
  LET failures == HistoryRows(DB_CUSTOMER_ID, FALSE, "Invalid password")
  IN /\ dbUsers[1].failedLoginAttempts = failures
     /\ failures >= LOCK_THRESHOLD => dbUsers[1].lockedUntil # Undefined

\* Logins with a wrong password, for the customer's address and for an
\* address that has no account, through both authenticate functions.
EnumEmails == {CUSTOMER_EMAIL, UNKNOWN_EMAIL}

NextEnum ==
  \/ \E p \in SessionProcs, e \in EnumEmails : SecAuthStart(p, e, WRONG_PASSWORD, MaxLogins)
  \/ \E p \in SessionProcs : SecAuthFinish(p)
  \/ \E p \in SessionProcs, ip \in {CLIENT_IP, OTHER_IP}, e \in EnumEmails :
        LoginStart(p, ip, e, WRONG_PASSWORD, MaxLogins)
  \/ \E p \in SessionProcs : LoginFind(p)
  \/ \E p \in SessionProcs : LoginVerify(p)

SpecEnum == Init /\ [][NextEnum]_vars

\* C25: a failed authenticate says the same for an address that has no
\* account as for an account given a wrong password: every answer
\* InvalidCredentials is the generic one, with nothing added to it.
C25_ExistenceHidden ==
  (last.op \in {"login", "authenticateUser"} /\ last.resp = "InvalidCredentials")
  => last.detail = <<>>

\* C17: a login request that the rate limiter rejects is answered RateLimited
\* in the step that started it, before the body is read and so before any
\* account is looked up or any password verified, and that step leaves the
\* failed-attempt counters, the locks, the login history and the sessions of
\* every account as they were.
C17_RateLimitFirst ==
  [][(last' # last /\ last'.op = "login" /\ last'.resp = "RateLimited")
       => /\ nreq' = nreq + 1
          /\ last'.seq = nreq'
          /\ req' = req
          /\ ~RateAllowed(LoginKey(CLIENT_IP), RATE_MAX) \/ ~RateAllowed(LoginKey(OTHER_IP), RATE_MAX)
          /\ UNCHANGED <<dbUsers, dbSessions, dbLoginHistory, users, sessions, tokens>>]_vars

\* a login with the right password for an account that is neither locked nor
\* inactive was refused by the rate limiter
C17_Witness ==
  /\ last.op = "login"
  /\ last.resp = "RateLimited"
  /\ last.about = CUSTOMER_EMAIL
  /\ last.user = NoUser
  /\ ~Locked(dbUsers[1].lockedUntil)
  /\ dbUsers[1].failedLoginAttempts < LOCK_THRESHOLD

\* ------------------------------------- TransactionRepository, UserRepository
\* bound on the repository calls of one behaviour
MaxCalls == 4

TransactionStatuses == {"pending", "completed", "failed", "cancelled"}
TerminalStatuses == {"completed", "failed", "cancelled"}

DB_TRANSFER_AMOUNT == R(1000)
DB_TRANSFER_FEES == R(25)

\* new Date().getHours(): a night hour, a day hour, a late hour
Hours == {3, 12, 22, 23}

\* TransactionRepository.calculateRiskScore
CalculateRiskScore(data, hour) ==
  Min((IF data.amountInZar > R(50000) THEN 30
       ELSE IF data.amountInZar > R(10000) THEN 15 ELSE 0)
      + (IF data.transactionType = "international_transfer" THEN 20 ELSE 0)
      + (IF hour < 6 \/ hour > 22 THEN 10 ELSE 0),
      100)

\* TransactionRepository.create: the INSERT names no status, so the row gets
\* the column default 'pending'; the findById that follows only reads.
TxnCreate(data, hour) ==
  /\ nreq < MaxCalls
  /\ nreq' = nreq + 1
  /\ fresh' = fresh + 1
  /\ dbTransactions' = Append(dbTransactions,
                               DbTransaction(Uuid(fresh + 2), data, "pending", Undefined,
                                             CalculateRiskScore(data, hour), hour))
  /\ UNCHANGED <<userLimits, now, ticks, users, sessions, transactions, timers, rateLimitStore,
                 dbUsers, dbSessions, dbLoginHistory, rateCalls, tokens, req, last>>

\* new Date() for status 'completed', null for every other status
CompletedAtFor(status) == IF status = "completed" THEN now ELSE Undefined

\* TransactionRepository.updateStatus: UPDATE transactions SET status = ?,
\* completed_at = ? WHERE id = ?
TxnUpdateStatus(id, status) ==
  /\ nreq < MaxCalls
  /\ nreq' = nreq + 1
  /\ dbTransactions' = [i \in 1..Len(dbTransactions) |->
                          IF dbTransactions[i].id = id
                            THEN [dbTransactions[i] EXCEPT !.status = status,
                                                           !.completedAt = CompletedAtFor(status)]
                            ELSE dbTransactions[i]]
  /\ UNCHANGED <<userLimits, now, ticks, users, sessions, transactions, timers, rateLimitStore,
                 dbUsers, dbSessions, dbLoginHistory, rateCalls, tokens, fresh, req, last>>

\* UserRepository.updateBalance: UPDATE users SET balance = ? WHERE id = ?
DbUpdateBalance(id, newBalance) ==
  /\ nreq < MaxCalls
  /\ nreq' = nreq + 1
  /\ dbUsers' = [i \in 1..Len(dbUsers) |->
                   IF dbUsers[i].id = id THEN [dbUsers[i] EXCEPT !.balance = newBalance]
                                         ELSE dbUsers[i]]
  /\ UNCHANGED <<userLimits, now, ticks, users, sessions, transactions, timers, rateLimitStore,
                 dbSessions, dbLoginHistory, dbTransactions, rateCalls,
                 tokens, fresh, req, last>>

DbTransferData ==
  [fromAccountNumber |-> CUSTOMER_ACCOUNT, toAccountNumber |-> EXTERNAL_ACCOUNT,
   amountInZar |-> DB_TRANSFER_AMOUNT, fees |-> DB_TRANSFER_FEES,
   transactionType |-> "international_transfer"]

DbTxnIds == {SEED_TXN_ID} \cup {Uuid(n) : n \in 2..(MaxCalls + 1)}

\* the repository calls, with the clock
NextRepo ==
  \/ Tick(1)
  \/ \E hour \in Hours : TxnCreate(DbTransferData, hour)
  \/ \E id \in DbTxnIds, status \in TransactionStatuses : TxnUpdateStatus(id, status)
  \/ DbUpdateBalance(DB_CUSTOMER_ID,
                     R(25000) - (DB_TRANSFER_AMOUNT + DB_TRANSFER_FEES))

SpecRepo == Init /\ [][NextRepo]_vars

DbTxn(id) == dbTransactions[FindFirst({i \in 1..Len(dbTransactions) : dbTransactions[i].id = id})]
DbTxnExists(id) == \E i \in 1..Len(dbTransactions) : dbTransactions[i].id = id

\* C12: once the status of a transaction is completed, failed or cancelled,
\* no operation changes it again, and a status changes only from pending to
\* one of these three; in both stores.
C12_StatusTerminal ==
  [][/\ \A id \in DbTxnIds :
          (DbTxnExists(id) /\ DbTxn(id)'.status # DbTxn(id).status)
            => /\ DbTxn(id).status = "pending"
               /\ DbTxn(id)'.status \in TerminalStatuses
      /\ \A i \in 1..Len(transactions) : \A k \in 1..Len(transactions') :
          (transactions'[k].id = transactions[i].id
             /\ transactions'[k].status # transactions[i].status)
            => /\ transactions[i].status = "pending"
               /\ transactions'[k].status \in TerminalStatuses]_vars

TransferTypes == {"international_transfer", "domestic_transfer"}

\* C13: whenever a pending transfer becomes failed, the balance of the sender
\* rises in the same step by exactly what the transfer took from it, its
\* amount plus its fees; in both stores.
C13_FailureCompensated ==
  [][/\ \A id \in DbTxnIds :
          (/\ DbTxnExists(id)
           /\ DbTxn(id).transactionType \in TransferTypes
           /\ DbTxn(id).status = "pending"
           /\ DbTxn(id)'.status = "failed")
            => \A u \in 1..Len(dbUsers) :
                 dbUsers[u].accountNumber = DbTxn(id).fromAccountNumber
                   => dbUsers'[u].balance
                        = dbUsers[u].balance + DbTxn(id).amountInZar + DbTxn(id).fees
      /\ \A i \in 1..Len(transactions) : \A k \in 1..Len(transactions') :
          (/\ transactions'[k].id = transactions[i].id
           /\ transactions[i].type \in TransferTypes
           /\ transactions[i].status = "pending"
           /\ transactions'[k].status = "failed")
            => \A s \in 1..Len(users) :
                 users[s].accountNumber = transactions[i].fromAccountNumber
                   => users'[s].balance
                        = users[s].balance + transactions[i].amountInZAR + transactions[i].fees]_vars

\* ------------------------------------------------ transfers and their timers
\* One caller's transfers, accepted and rejected, with the callbacks the
\* accepted ones schedule; every scheduled callback runs.
PendingInputs ==
  { [recipientAccount |-> EXTERNAL_ACCOUNT, reference |-> GOOD_REFERENCE,
     zarAmount |-> z, fees |-> R(100)] : z \in {R(4900), R(100001)} }

\* the ids createTransaction can hand out in one behaviour
TransactionIds == 1..(MaxReqs + 1)

NextPending ==
  \/ \E p \in SessionProcs, l \in SecureLogins : SecAuthStart(p, l[1], l[2], MaxReqs)
  \/ \E p \in SessionProcs : SecAuthFinish(p)
  \/ \E p \in SessionProcs, t \in Presentable, a \in PendingInputs :
        RouteStart(p, "transfer", t, a, MaxReqs)
  \/ \E p \in SessionProcs : TransferBody(p)
  \/ \E id \in TransactionIds : CompleteTransfer(id)

SpecPending ==
  Init /\ [][NextPending]_vars /\ \A id \in TransactionIds : WF_vars(CompleteTransfer(id))

HasStatus(id, statuses) ==
  \E i \in 1..Len(transactions) :
    transactions[i].id = id /\ transactions[i].status \in statuses

\* C14: every transfer record created with status pending eventually has a
\* terminal status, given that every scheduled completion callback runs.
C14_NoStuckPending ==
  \A id \in TransactionIds :
    HasStatus(id, {"pending"}) ~> HasStatus(id, TerminalStatuses)

C14_Witness ==
  \E i \in 1..Len(transactions) :
    /\ transactions[i].type = "international_transfer"
    /\ transactions[i].status = "completed"
    /\ transactions[i].id \notin timers
    /\ \E k \in 1..Len(transactions) : transactions[k].id \in timers

\* ------------------------------------------------- checkRateLimit on its own
\* bound on the calls of checkRateLimit of one behaviour
MaxRateCalls == 7

API_KEY == <<"api", CLIENT_IP>>
API_MAX == 2
API_WINDOW == 2

\* A call of checkRateLimit; what it was asked and what it returned is kept.
CheckRateLimit(identifier, maxAttempts, windowMs) ==
  /\ Len(rateCalls) < MaxRateCalls
  /\ rateCalls' = Append(rateCalls,
                         [identifier |-> identifier, maxAttempts |-> maxAttempts,
                          windowMs |-> windowMs, at |-> now,
                          allowed |-> RateAllowed(identifier, maxAttempts)])
  /\ rateLimitStore' = RateStoreAfter(identifier, maxAttempts, windowMs)
  /\ UNCHANGED <<userLimits, now, ticks, users, sessions, transactions, timers,
                 dbUsers, dbSessions, dbLoginHistory, dbTransactions,
                 tokens, fresh, req, last, nreq>>

\* the limiter as the login route calls it, and with a shorter limit and a
\* longer window
NextRate ==
  \/ Tick(1)
  \/ Tick(2)
  \/ CheckRateLimit(LoginKey(CLIENT_IP), RATE_MAX, RATE_WINDOW)
  \/ CheckRateLimit(API_KEY, API_MAX, API_WINDOW)

SpecRate == Init /\ [][NextRate]_vars

\* whether the window that started at start is over at time t: at
\* start + windowMs it still runs when the window is closed, and is over when
\* the window is half-open
Elapsed(start, t, windowMs, closed) ==
  IF closed THEN t > start + windowMs ELSE t >= start + windowMs

NoWindow == [start |-> Undefined, count |-> 0]

\* the window an identifier is in after the calls given, and how many of them
\* fell into it: the first call, and the first call after the window is over,
\* start a window
RECURSIVE WindowAfter(_, _, _)
WindowAfter(calls, identifier, closed) ==
  IF calls = <<>> THEN NoWindow
  ELSE LET before == WindowAfter(SubSeq(calls, 1, Len(calls) - 1), identifier, closed)
           c == calls[Len(calls)]
       IN IF c.identifier # identifier THEN before
          ELSE IF before = NoWindow \/ Elapsed(before.start, c.at, c.windowMs, closed)
            THEN [start |-> c.at, count |-> 1]
          ELSE [before EXCEPT !.count = @ + 1]

\* every call so far returned true exactly when it was among the first
\* maxAttempts calls of its window
FixedWindow(closed) ==
  \A n \in 1..Len(rateCalls) :
    rateCalls[n].allowed
      = (WindowAfter(SubSeq(rateCalls, 1, n), rateCalls[n].identifier, closed).count
           <= rateCalls[n].maxAttempts)

\* C16: for each identifier, of the calls of one window exactly the first
\* maxAttempts return true and every further one returns false, and the first
\* call after the window is over returns true and starts the count at 1; the
\* window runs from the call that starts it up to and including the instant
\* windowMs later.
C16_FixedWindow == FixedWindow(TRUE)

\* C16 as stated: the window is over as soon as windowMs has elapsed since
\* the call that started it.
C16_WindowOverOnceElapsed == FixedWindow(FALSE)

\* the limit was reached in one window, a call in it was refused, and a call
\* after the window was allowed again
C16_Witness ==
  \E m, n \in 1..Len(rateCalls) :
    /\ m < n
    /\ rateCalls[m].identifier = rateCalls[n].identifier
    /\ ~rateCalls[m].allowed
    /\ WindowAfter(SubSeq(rateCalls, 1, m), rateCalls[m].identifier, TRUE).count
         = rateCalls[m].maxAttempts + 1
    /\ rateCalls[n].allowed
    /\ rateCalls[n].at > rateCalls[m].at
    /\ rateLimitStore[rateCalls[n].identifier].count = 1

\* -------------------------------------------------------------------- admin
\* SecureDatabase.getAllCustomers
GetAllCustomers == {i \in 1..Len(users) : users[i].role = "customer"}

\* GET admin users route: no await, answered at once
AdminListUsers(p, token, budget) ==
  LET u == SecValidateSession(token)
      gate == Gate("adminListUsers", u)
  IN /\ Begin(p, "adminListUsers", token, <<>>, "done",
              IF gate = "pass" THEN u ELSE NoUser,
              IF gate = "pass" THEN "ok" ELSE gate, budget)
     /\ UNCHANGED <<userLimits, now, ticks, users, sessions, transactions, timers, rateLimitStore,
                    dbUsers, dbSessions, dbLoginHistory, tokens, fresh,
                    dbTransactions, rateCalls>>

\* GET admin transactions route: no await; getAllTransactions sorts the stored
\* array in place
AdminListTransactions(p, token, budget) ==
  LET u == SecValidateSession(token)
      gate == Gate("adminListTransactions", u)
  IN /\ Begin(p, "adminListTransactions", token, <<>>, "done",
              IF gate = "pass" THEN u ELSE NoUser,
              IF gate = "pass" THEN "ok" ELSE gate, budget)
     /\ transactions' = IF gate = "pass" THEN GetAllTransactions ELSE transactions
     /\ UNCHANGED <<userLimits, now, ticks, users, sessions, timers, rateLimitStore,
                    dbUsers, dbSessions, dbLoginHistory, tokens, fresh,
                    dbTransactions, rateCalls>>

AdminCreateInputs ==
  { [email |-> NEW_EMAIL, password |-> STRONG_PASSWORD, initialBalance |-> R(1000)] }

NextAdmin ==
  \/ \E p \in Procs, l \in SecureLogins : SecAuthStart(p, l[1], l[2], MaxReqs)
  \/ \E p \in Procs : SecAuthFinish(p)
  \/ \E p \in Procs, t \in Presentable : AdminListUsers(p, t, MaxReqs)
  \/ \E p \in Procs, t \in Presentable : AdminListTransactions(p, t, MaxReqs)
  \/ \E p \in Procs, t \in Presentable, a \in ToggleInputs :
        RouteStart(p, "toggleUserStatus", t, a, MaxReqs)
  \/ \E p \in Procs : ToggleBody(p)
  \/ \E p \in Procs, t \in Presentable, a \in AdminCreateInputs :
        RouteStart(p, "createUser", t, a, MaxReqs)
  \/ \E p \in Procs : CreateUserBody(p)
  \/ \E p \in Procs, n \in AccountDraws : CreateUserFinish(p, n)

SpecAdmin == Init /\ [][NextAdmin]_vars

\* the token validates for an account whose role is admin
IsAdmin(token) ==
  LET u == SecValidateSession(token) IN u # NoUser /\ users[u].role = "admin"

\* C11: an admin operation called with a token that does not validate, or that
\* validates for an account whose role is not admin, is answered at once with
\* a forbidden/unauthorized error and nothing else (no handler is left running
\* for it), and the call changes no state.
C11_AdminOnly ==
  [][nreq' # nreq =>
       /\ \A p \in Procs :
            (req'[p] # req[p] /\ req'[p].op \in AdminOps) => IsAdmin(req'[p].token)
       /\ (last' # last /\ last'.op \in AdminOps /\ ~IsAdmin(last'.token))
          => /\ last'.resp \in {"Forbidden", "Unauthorized"}
             /\ last'.user = NoUser
             /\ req' = req
             /\ UNCHANGED <<userLimits, users, sessions, transactions, timers, rateLimitStore,
                            dbUsers, dbSessions, dbLoginHistory, tokens,
                            dbTransactions, rateCalls>>]_vars

\* the customer, with a token that validates, was refused an admin operation
C11_Witness ==
  /\ last.op \in AdminOps
  /\ last.resp = "Forbidden"
  /\ last.token \in tokens
  /\ SecValidateSession(last.token) = 2
  /\ users[2].role = "customer"

\* ------------------------------------------------------------------ ledger
RECURSIVE SumBalances(_)
SumBalances(us) ==
  IF Len(us) = 0 THEN 0 ELSE us[Len(us)].balance + SumBalances(SubSeq(us, 1, Len(us) - 1))

InternalAccounts == {users[i].accountNumber : i \in 1..Len(users)}

Transfers == {i \in 1..Len(transactions) : transactions[i].type = "international_transfer"}

Settling == timers # {} \/ \E p \in Procs : req[p].pc # "idle"

DebitOps == {"transfer", "withdraw"}
LedgerOps == {"transfer", "withdraw", "deposit"}
Rejections == {"ValidationError", "InsufficientFunds", "LimitExceeded", "Unauthorized"}

\* what the debit request in slot p takes from the balance when it succeeds
TotalDebit(r) ==
  IF r.op = "transfer" THEN r.arg.zarAmount + r.arg.fees
  ELSE r.arg.amount + WithdrawalFee(r.arg.amount)

DebitsFrom(account) ==
  {i \in 1..Len(transactions) : transactions[i].fromAccountNumber = account}

\* C1: when the only operations that took effect are transfers between the two
\* seeded internal accounts (no deposit, no withdrawal, no provisioning), then
\* once everything has settled the balances add up to what they added up to
\* at the start: what the sender was debited, the recipient was credited.
C1_BalanceConservation ==
  ( /\ ~Settling
    /\ Len(users) = 2
    /\ Cardinality(Transfers) = Len(transactions) - 1
    /\ \A i \in Transfers : transactions[i].toAccountNumber \in InternalAccounts )
  => SumBalances(users) = R(50000) + R(25000)

\* C2: every account's balance is at least 0 in every reachable state, the
\* balance an account is provisioned with included.
C2_NoNegativeBalance == \A i \in 1..Len(users) : users[i].balance >= 0

\* C3: a transfer or withdrawal is decided against the balance as the debits
\* answered before it left it, whatever request started first: it succeeds
\* only if its total debit fits that balance and then takes exactly its total
\* debit; it fails with InsufficientFunds only if the debit does not fit, and
\* then leaves the balance alone.  So of two concurrent debits that fit alone
\* but not together exactly one succeeds.
C3_DebitsLinearized ==
  [][\A p \in Procs :
       (req[p].pc = "body" /\ req[p].op \in DebitOps /\ req'[p].pc = "idle")
       => LET u == req[p].user
              debit == TotalDebit(req[p])
          IN /\ last'.resp \in {"ok", "InsufficientFunds", "ValidationError", "LimitExceeded"}
             /\ last'.resp = "ok" =>
                  /\ debit <= users[u].balance
                  /\ users'[u].balance = users[u].balance - debit
                  /\ \A v \in 1..Len(users) : v # u => users'[v] = users[v]
             /\ last'.resp = "InsufficientFunds" =>
                  /\ debit > users[u].balance
                  /\ users' = users
             /\ (debit > users[u].balance) => last'.resp # "ok"]_vars

\* Two debits of the customer were in flight together (the one that arrived
\* second was answered first), each fits the seeded 25,000 alone, the two do
\* not fit together: one was recorded and taken, the other got InsufficientFunds.
C3_Witness ==
  /\ last.op \in DebitOps
  /\ last.resp = "InsufficientFunds"
  /\ last.user = 2
  /\ last.seq = 2
  /\ nreq = 3
  /\ Cardinality(DebitsFrom(CUSTOMER_ACCOUNT)) = 1
  /\ \E i \in DebitsFrom(CUSTOMER_ACCOUNT) :
        /\ transactions[i].amountInZAR >= R(14900)
        /\ users[2].balance = R(25000) - transactions[i].amountInZAR - transactions[i].fees

\* C4: a transfer, deposit or withdrawal that is rejected changes nothing: the
\* step that starts the request only validates the session, and the step that
\* answers it with a rejection leaves every balance and the transaction
\* records as they were.
C4_RejectedChangesNothing ==
  [][/\ (nreq' # nreq) => (users' = users /\ transactions' = transactions)
     /\ (last' # last /\ last'.op \in LedgerOps /\ last'.resp \in Rejections)
        => (users' = users /\ transactions' = transactions)]_vars

C4_Witness ==
  /\ last.op \in LedgerOps
  /\ last.resp \in Rejections \ {"Unauthorized"}
  /\ last.user # NoUser

\* what a record stands for on the balance of an account: a deposit adds its
\* amount to the account it names as recipient, every record takes amount and
\* fees from the account it names as sender
Effect(r, account) ==
  (IF r.type = "deposit" /\ r.toAccountNumber = account THEN r.amountInZAR ELSE 0)
  - (IF r.fromAccountNumber = account THEN r.amountInZAR + r.fees ELSE 0)

\* C15: the step that answers a transfer, withdrawal or deposit either adds
\* no record and leaves every balance alone, and then answers with an error,
\* or adds exactly one record and applies exactly that record's effect to the
\* caller's balance, and then answers with success; the step that starts such
\* a request changes neither.  So between requests no record is without its
\* debit or credit and no debit or credit without its record.
C15_RecordWithMutation ==
  [][/\ (nreq' # nreq) => (users' = users /\ transactions' = transactions)
     /\ \A p \in Procs :
          (req[p].pc = "body" /\ req[p].op \in LedgerOps /\ req'[p].pc = "idle")
          => LET u == req[p].user
                 id == Len(transactions) + 1
             IN \/ /\ last'.resp # "ok"
                   /\ transactions' = transactions
                   /\ users' = users
                \/ /\ last'.resp = "ok"
                   /\ Len(transactions') = Len(transactions) + 1
                   /\ SubSeq(transactions', 1, Len(transactions)) = transactions
                   /\ transactions'[id].id = id
                   /\ Effect(transactions'[id], users[u].accountNumber) # 0
                   /\ users' = [users EXCEPT ![u].balance =
                                  @ + Effect(transactions'[id], users[u].accountNumber)]]_vars

\* a deposit was answered with success: its record is there and the balance
\* of the caller has moved by the record's amount
C15_Witness ==
  /\ last.op = "deposit"
  /\ last.resp = "ok"
  /\ last.user = 2
  /\ \E k \in 1..Len(transactions) :
        /\ transactions[k].id = Len(transactions)
        /\ transactions[k].type = "deposit"
        /\ transactions[k].toAccountNumber = CUSTOMER_ACCOUNT
        /\ users[2].balance = R(25000) + transactions[k].amountInZAR

\* ------------------------------------------------- withdrawals and deposits
\* bound on the requests of one behaviour of the teller specification
MaxTellerReqs == 4

TellerWithdrawals == { [amount |-> a] : a \in {0, R(1000), R(24975), R(24976), R(50000), R(50001)} }

TellerDeposits == { [amount |-> a] : a \in {0, R(10000), R(500000), R(500001)} }

TellerLogins == SecureLogins \cup { <<NEW_EMAIL, STRONG_PASSWORD>> }

\* One caller at a time: the admin provisions an account with balance 0, and
\* the three users log in, withdraw and deposit.
NextTeller ==
  \/ \E p \in SessionProcs, l \in TellerLogins : SecAuthStart(p, l[1], l[2], MaxTellerReqs)
  \/ \E p \in SessionProcs : SecAuthFinish(p)
  \/ \E p \in SessionProcs, t \in Presentable :
        RouteStart(p, "createUser", t,
                   [email |-> NEW_EMAIL, password |-> STRONG_PASSWORD, initialBalance |-> 0],
                   MaxTellerReqs)
  \/ \E p \in SessionProcs : CreateUserBody(p)
  \/ \E p \in SessionProcs : CreateUserFinish(p, "6291827364")
  \/ \E p \in SessionProcs, t \in Presentable, a \in TellerWithdrawals :
        RouteStart(p, "withdraw", t, a, MaxTellerReqs)
  \/ \E p \in SessionProcs : WithdrawBody(p)
  \/ \E p \in SessionProcs, t \in Presentable, a \in TellerDeposits :
        RouteStart(p, "deposit", t, a, MaxTellerReqs)
  \/ \E p \in SessionProcs : DepositBody(p)

SpecTeller == Init /\ [][NextTeller]_vars

\* the step that answers the request of slot p for operation op
Answers(p, op) == req[p].pc = "body" /\ req[p].op = op /\ req'[p].pc = "idle"

\* the step adds exactly this one record and leaves the others alone
AddsRecord(r) ==
  /\ Len(transactions') = Len(transactions) + 1
  /\ SubSeq(transactions', 1, Len(transactions)) = transactions
  /\ LET new == transactions'[Len(transactions')]
     IN /\ new.fromAccountNumber = r.fromAccountNumber
        /\ new.toAccountNumber = r.toAccountNumber
        /\ new.amountInZAR = r.amountInZAR
        /\ new.fees = r.fees
        /\ new.type = r.type
        /\ new.status = "completed"
        /\ new.completedAt = now

\* the step moves the balance of user u by d and leaves every other user alone
MovesBalance(u, d) == users' = [users EXCEPT ![u].balance = @ + d]

\* C19: a withdrawal of a valid amount within the limit of 50,000 has the fee
\* min(0.1% of the amount, 50); it is answered InsufficientFunds exactly when
\* amount + fee exceeds the balance, and then changes nothing; otherwise it
\* succeeds, the balance goes down by exactly amount + fee and exactly one
\* record is added: completed, of type withdrawal, from the caller's account
\* to the external-system sentinel, with the amount and the fee.
C19_Withdraw ==
  [][\A p \in Procs :
       (/\ Answers(p, "withdraw")
        /\ req[p].arg.amount > 0
        /\ req[p].arg.amount <= R(50000))
       => LET u == req[p].user
              amount == req[p].arg.amount
              fee == IF amount \div 1000 < R(50) THEN amount \div 1000 ELSE R(50)
          IN /\ last'.resp \in {"ok", "InsufficientFunds"}
             /\ (last'.resp = "InsufficientFunds") <=> (amount + fee > users[u].balance)
             /\ last'.resp = "InsufficientFunds"
                  => (users' = users /\ transactions' = transactions)
             /\ last'.resp = "ok"
                  => /\ MovesBalance(u, 0 - (amount + fee))
                     /\ AddsRecord([fromAccountNumber |-> users[u].accountNumber,
                                    toAccountNumber |-> "SYSTEM_WITHDRAWAL",
                                    amountInZAR |-> amount, fees |-> fee,
                                    type |-> "withdrawal"])]_vars

\* balance 25,000.00, withdraw 1,000.00: fee 1.00, balance 23,999.00
C19_Witness ==
  /\ last.op = "withdraw"
  /\ last.resp = "ok"
  /\ last.user = 2
  /\ users[2].balance = R(23999)
  /\ Len(transactions) = 2
  /\ transactions[2].amountInZAR = R(1000)
  /\ transactions[2].fees = R(1)
  /\ transactions[2].type = "withdrawal"
  /\ transactions[2].status = "completed"

\* C20: a deposit is accepted exactly when its amount is valid and within the
\* limit of 500,000; an accepted deposit raises the caller's balance by
\* exactly the amount and adds exactly one record: completed at once, of type
\* deposit, with fee 0, from the external-system sentinel to the caller's
\* account; a deposit that is not accepted changes nothing.
C20_Deposit ==
  [][\A p \in Procs :
       Answers(p, "deposit")
       => LET u == req[p].user
              amount == req[p].arg.amount
          IN /\ (last'.resp = "ok") <=> (amount > 0 /\ amount <= R(500000))
             /\ last'.resp = "ok"
                  => /\ MovesBalance(u, amount)
                     /\ AddsRecord([fromAccountNumber |-> "SYSTEM_DEPOSIT",
                                    toAccountNumber |-> users[u].accountNumber,
                                    amountInZAR |-> amount, fees |-> 0,
                                    type |-> "deposit"])
             /\ last'.resp # "ok"
                  => (users' = users /\ transactions' = transactions)]_vars

\* 10,000.00 into an account with balance 0: balance 10,000.00
C20_Witness ==
  /\ last.op = "deposit"
  /\ last.resp = "ok"
  /\ last.user = 3
  /\ Len(users) = 3
  /\ users[3].balance = R(10000)
  /\ Len(transactions) = 2
  /\ transactions[2].type = "deposit"
  /\ transactions[2].amountInZAR = R(10000)
  /\ transactions[2].fees = 0
  /\ transactions[2].status = "completed"
  /\ transactions[2].toAccountNumber = users[3].accountNumber

\* ------------------------------------------------------------ fees and limits
\* calculateTransactionFees on the amount converted to ZAR; 0.5% is exact
\* for whole rands
CalculateTransactionFees(baseAmount) ==
  IF baseAmount <= R(1000) THEN R(50)
  ELSE IF baseAmount <= R(10000) THEN R(100)
  ELSE IF baseAmount <= R(50000) THEN R(250)
  ELSE Min((baseAmount * 5) \div 1000, R(500))

\* C21: the fee recorded on every accepted transfer, which is the fee the
\* sender was debited, is the fee of the tiered schedule for the transfer's
\* settlement amount.
C21_FeeSchedule ==
  \A i \in Transfers :
    transactions[i].fees = CalculateTransactionFees(transactions[i].amountInZAR)

\* the amount a request of a ledger operation asks for
RequestedAmount(r) == IF r.op = "transfer" THEN r.arg.zarAmount ELSE r.arg.amount

\* the ceiling of a ledger operation
Ceiling(op) ==
  IF op = "transfer" THEN R(100000) ELSE IF op = "deposit" THEN R(500000) ELSE R(50000)

\* C22: a transfer, deposit or withdrawal that is accepted asked for no more
\* than the ceiling of its operation; one that asked for more is rejected,
\* and the step that rejects it changes no balance and adds no record.
C22_Ceilings ==
  [][\A p \in Procs : \A op \in LedgerOps :
       Answers(p, op)
       => /\ last'.resp = "ok" => RequestedAmount(req[p]) <= Ceiling(op)
          /\ RequestedAmount(req[p]) > Ceiling(op)
               => /\ last'.resp \in Rejections
                  /\ users' = users
                  /\ transactions' = transactions]_vars

\* a transfer above the ceiling, which the balance would have covered, was
\* rejected
C22_Witness ==
  /\ last.op = "transfer"
  /\ last.resp = "LimitExceeded"
  /\ last.user # NoUser
  /\ users[last.user].balance > R(100000) + R(100)

\* ------------------------------------------------------------------ risk score
\* bound on the records created in one behaviour of the risk specification
MaxRiskCalls == 2

RiskAmounts == {R(1000), R(10001), R(50001)}
RiskTypes == {"international_transfer", "deposit"}

\* SecureDatabase.createTransaction, called with a record of any amount, type
\* and recipient
SecCreateTransaction(data) ==
  /\ nreq < MaxRiskCalls
  /\ nreq' = nreq + 1
  /\ transactions' = CreateTransaction(data)
  /\ UNCHANGED <<userLimits, now, ticks, users, sessions, timers, rateLimitStore,
                 dbUsers, dbSessions, dbLoginHistory, dbTransactions, rateCalls,
                 tokens, fresh, req, last>>

\* TransactionRepository.create with MaxRiskCalls as its budget
RiskTxnCreate(data, hour) == nreq < MaxRiskCalls /\ TxnCreate(data, hour)

NextRisk ==
  \/ \E a \in RiskAmounts, t \in RiskTypes, to \in {CUSTOMER_ACCOUNT, EXTERNAL_ACCOUNT} :
        SecCreateTransaction(
          [fromAccountNumber |-> IF t = "deposit" THEN SYSTEM_DEPOSIT ELSE ADMIN_ACCOUNT,
           toAccountNumber |-> to, amountInZAR |-> a, fees |-> 0, type |-> t,
           status |-> "pending", completedAt |-> Undefined])
  \/ \E a \in RiskAmounts, t \in RiskTypes, hour \in Hours :
        RiskTxnCreate(
          [fromAccountNumber |-> CUSTOMER_ACCOUNT, toAccountNumber |-> EXTERNAL_ACCOUNT,
           amountInZar |-> a, fees |-> 0, transactionType |-> t], hour)

SpecRisk == Init /\ [][NextRisk]_vars

\* C24: the risk score stored on every transaction record, of either store,
\* is a whole number from 0 to 100.
C24_RiskScoreRange ==
  /\ \A i \in 1..Len(transactions) : transactions[i].riskScore \in 0..100
  /\ \A i \in 1..Len(dbTransactions) : dbTransactions[i].riskScore \in 0..100

\* the highest scores there are: a large international transfer to a new
\* recipient in secureStorage, and one at night in table transactions
C24_Witness ==
  /\ \E i \in 1..Len(transactions) : transactions[i].riskScore = 75
  /\ \E i \in 1..Len(dbTransactions) : dbTransactions[i].riskScore = 60

\* ------------------------------------------------------------ account numbers
\* C26: no two accounts have the same account number, in secureStorage and
\* in table users.
C26_UniqueAccountNumbers ==
  /\ \A i, j \in 1..Len(users) :
        i # j => users[i].accountNumber # users[j].accountNumber
  /\ \A i, j \in 1..Len(dbUsers) :
        i # j => dbUsers[i].accountNumber # dbUsers[j].accountNumber

\* ------------------------------------------------------------ minor units
\* a cent, in the thousandths of a rand the model counts in
MinorUnit == R(1) \div 100

WholeMinorUnits(x) == x % MinorUnit = 0

\* C27: every balance, every recorded amount and fee, and so every total
\* debit, is a whole number of cents (all requested amounts and all initial
\* balances are).
C27_MinorUnitExact ==
  /\ \A i \in 1..Len(users) : WholeMinorUnits(users[i].balance)
  /\ \A i \in 1..Len(transactions) :
        /\ WholeMinorUnits(transactions[i].amountInZAR)
        /\ WholeMinorUnits(transactions[i].fees)

\* ------------------------------------------------------------ safe account view
AccountOps == {"authenticateUser", "login", "verify", "verifyDb", "adminListUsers", "createUser"}

\* C28: an account value in an answer of login/authenticate, verify, the admin
\* users list or create user has no password hash, no password salt and no
\* session identifier.
C28_SafeAccountView ==
  last.op \in AccountOps => last.view \cap {"passwordHash", "passwordSalt", "sessionId"} = {}

\* ------------------------------------------------------------ validation is a read
\* a step of a verify request: its answer, or a step of its slot
VerifyStep ==
  \/ last' # last /\ last'.op \in {"verify", "verifyDb"}
  \/ \E p \in Procs : req'[p] # req[p] /\ "verifyDb" \in {req[p].op, req'[p].op}

\* C29: validating a session writes nothing, whether it succeeds or fails: no
\* session's expiry moves, and no session, account, history row, rate counter
\* or transaction changes.
C29_ValidateReadOnly ==
  [][VerifyStep => UNCHANGED <<users, sessions, dbUsers, dbSessions, dbLoginHistory,
                               rateLimitStore, transactions, dbTransactions, timers,
                               tokens, now>>]_vars

C29_Witness ==
  /\ last.op = "verify"
  /\ last.resp = "ok"
  /\ LET payload == VerifyJWT(last.token, JWT_SECRET)
     IN /\ payload.sessionId \in DOMAIN sessions
        /\ sessions[payload.sessionId].expiresAt < now + SESSION_TTL

\* ------------------------------------------------------------ order of the checks
MaxOrderCalls == 7

\* The customer logs in from two addresses, and the account is deactivated at
\* some point; no time passes, so that a lock once set stays in force.
NextOrder ==
  \/ \E p \in LockoutProcs, ip \in {CLIENT_IP, OTHER_IP}, pw \in LoginPasswords :
        LoginStart(p, ip, CUSTOMER_EMAIL, pw, MaxOrderCalls)
  \/ \E p \in LockoutProcs : LoginFind(p)
  \/ \E p \in LockoutProcs : LoginVerify(p)
  \/ \E p \in LockoutProcs : LoginSession(p)
  \/ DbDeactivate(DB_CUSTOMER_ID, MaxOrderCalls)

SpecOrder == Init /\ [][NextOrder]_vars

\* C30: a login for an account that is both deactivated and locked is
\* answered AccountInactive, in the login route and in authenticateUser.
C30_InactiveBeforeLocked ==
  [][/\ \A i \in 1..Len(dbUsers) :
          (/\ last' # last
           /\ last'.op = "login"
           /\ last'.user = i
           /\ ~dbUsers[i].isActive
           /\ Locked(dbUsers[i].lockedUntil)) => last'.resp = "AccountInactive"
     /\ \A i \in 1..Len(users) :
          (/\ last' # last
           /\ last'.op = "authenticateUser"
           /\ last'.user = i
           /\ ~users[i].isActive
           /\ Locked(users[i].lockedUntil)) => last'.resp = "AccountInactive"]_vars

\* ------------------------------------------------------------ night risk
\* the parts of the score that the amount and the type contribute
AmountRisk(amount) == IF amount > R(50000) THEN 30 ELSE IF amount > R(10000) THEN 15 ELSE 0

TypeRisk(type) == IF type = "international_transfer" THEN 20 ELSE 0

\* C31: the score of a row that TransactionRepository.create wrote (any row but
\* the seeded one) has 10 on top of its amount and type parts exactly when the
\* row was created at an hour outside 6..21.
C31_NightRisk ==
  \A i \in 1..Len(dbTransactions) :
     LET t == dbTransactions[i]
     IN t.id # SEED_TXN_ID =>
          t.riskScore = AmountRisk(t.amountInZar) + TypeRisk(t.transactionType)
                         + (IF t.createdHour \in 6..21 THEN 0 ELSE 10)

\* ------------------------------------------------------------ first-time recipient
\* the record a step has appended to secureStorage.transactions
Created == transactions'[Len(transactions')]

\* C32: the score of a new record has 25 on top of its amount and type parts
\* exactly when no record of the same sender and recipient is completed at
\* the time; pending, failed and cancelled ones do not count.
C32_FirstTimeRecipient ==
  [][Len(transactions') = Len(transactions) + 1 =>
       Created.riskScore =
         AmountRisk(Created.amountInZAR) + TypeRisk(Created.type)
         + (IF \E i \in 1..Len(transactions) :
                  /\ transactions[i].fromAccountNumber = Created.fromAccountNumber
                  /\ transactions[i].toAccountNumber = Created.toAccountNumber
                  /\ transactions[i].status = "completed"
            THEN 0 ELSE 25)]_vars

\* ------------------------------------------------------------ stale authorization
MaxStaleReqs == 4

StaleInputs ==
  [transfer |-> [recipientAccount |-> EXTERNAL_ACCOUNT, reference |-> GOOD_REFERENCE,
                 zarAmount |-> R(14900), fees |-> R(100)],
   withdraw |-> [amount |-> R(15000)],
   deposit |-> [amount |-> R(100000)]]

\* Two callers at once: both users log in, the customer moves money, the admin
\* deactivates the customer; every route awaits the body of its request
\* between validateSession and what it does.
NextStale ==
  \/ \E p \in Procs, l \in SecureLogins : SecAuthStart(p, l[1], l[2], MaxStaleReqs)
  \/ \E p \in Procs : SecAuthFinish(p)
  \/ \E p \in Procs, t \in Presentable, op \in LedgerOps :
        RouteStart(p, op, t, StaleInputs[op], MaxStaleReqs)
  \/ \E p \in Procs, t \in Presentable, a \in ToggleInputs :
        RouteStart(p, "toggleUserStatus", t, a, MaxStaleReqs)
  \/ \E p \in Procs : ToggleBody(p)
  \/ \E p \in Procs : TransferBody(p)
  \/ \E p \in Procs : WithdrawBody(p)
  \/ \E p \in Procs : DepositBody(p)
  \/ \E id \in timers : CompleteTransfer(id)

SpecStale == Init /\ [][NextStale]_vars

\* C33: a transfer, deposit or withdrawal that changes a balance or adds a
\* record does so while its account is active and its session is there and
\* unexpired, whatever came between its validation and this moment.
C33_NoStaleMutation ==
  [][\A p \in Procs : \A op \in LedgerOps :
       (Answers(p, op) /\ (users' # users \/ transactions' # transactions))
         => Live(req[p].token)]_vars

\* ------------------------------------------------------------ e-mail addresses
\* C34: no two accounts have the same e-mail address, in secureStorage and in
\* table users, also when two create-user requests run at once.
C34_UniqueEmails ==
  /\ \A i, j \in 1..Len(users) : i # j => users[i].email # users[j].email
  /\ \A i, j \in 1..Len(dbUsers) : i # j => dbUsers[i].email # dbUsers[j].email

\* ------------------------------------------------------------ the failure counter
\* C35: failedLoginAttempts of every account is from 0 to the lockout
\* threshold, and no answer reports a negative number of attempts remaining.
C35_AttemptsBounded ==
  /\ \A i \in 1..Len(users) : users[i].failedLoginAttempts \in 0..LOCK_THRESHOLD
  /\ \A i \in 1..Len(dbUsers) : dbUsers[i].failedLoginAttempts \in 0..LOCK_THRESHOLD
  /\ last.detail # <<>> => last.detail[1] >= 0

\* ------------------------------------------------------------ attempts during a lock
MaxLockedCalls == 6

\* the address of each of the two clients
ClientIp(p) == IF p = 1 THEN CLIENT_IP ELSE OTHER_IP

\* the first client only guesses, the second also has the right password
ClientPasswords(p) == IF p = 1 THEN {WRONG_PASSWORD} ELSE LoginPasswords

\* Logins for the customer's account with the right and with a wrong
\* password: two clients at a time through the login route, and one caller
\* of authenticateUser.
NextLocked ==
  \/ \E p \in Procs : \E pw \in ClientPasswords(p) :
        LoginStart(p, ClientIp(p), CUSTOMER_EMAIL, pw, MaxLockedCalls)
  \/ \E p \in Procs : LoginFind(p)
  \/ \E p \in Procs : LoginVerify(p)
  \/ \E p \in Procs : LoginSession(p)
  \/ \E p \in LockoutProcs, pw \in LoginPasswords :
        SecAuthStart(p, CUSTOMER_EMAIL, pw, MaxLockedCalls)
  \/ \E p \in LockoutProcs : SecAuthFinish(p)

SpecLocked == Init /\ [][NextLocked]_vars

\* the step of the login route in slot p that has the row finds it locked
FindsLocked(p) ==
  /\ req[p].op = "login"
  /\ req[p].pc = "find"
  /\ req'[p] # req[p]
  /\ DbFindByEmail(req[p].arg.email) # NoUser
  /\ Locked(dbUsers[DbFindByEmail(req[p].arg.email)].lockedUntil)

\* authenticateUser, answered before its await, has found the user locked
AnsweredLocked ==
  /\ nreq' # nreq
  /\ req' = req
  /\ last'.op = "authenticateUser"
  /\ last'.user # NoUser
  /\ Locked(users[last'.user].lockedUntil)

\* authenticateUser goes on to verify the password of a locked user
VerifiesLocked(p) ==
  /\ req[p].pc = "idle"
  /\ req'[p].op = "authenticateUser"
  /\ Locked(users[req'[p].user].lockedUntil)

LockedFrame ==
  /\ last'.resp = "AccountLocked"
  /\ dbUsers' = dbUsers /\ dbSessions' = dbSessions
  /\ users' = users /\ sessions' = sessions

\* A call that finds the account locked is answered AccountLocked and leaves
\* both stores as they are.
FoundLockedChangesNothing ==
  [][/\ \A p \in Procs : FindsLocked(p) => (req'[p].pc = "idle" /\ LockedFrame)
     /\ \A p \in Procs : ~VerifiesLocked(p)
     /\ AnsweredLocked => LockedFrame]_vars

\* C36: while an account is locked, no step of a login, with the right or a
\* wrong password, changes its failedLoginAttempts or its lockedUntil, and
\* none creates a session for it; in both stores.
C36_LockNotExtended ==
  [][/\ \A i \in 1..Len(dbUsers) :
          Locked(dbUsers[i].lockedUntil) =>
            /\ dbUsers'[i].failedLoginAttempts = dbUsers[i].failedLoginAttempts
            /\ dbUsers'[i].lockedUntil = dbUsers[i].lockedUntil
            /\ \A s \in DOMAIN dbSessions' \ DOMAIN dbSessions :
                  dbSessions'[s].userId # dbUsers[i].id
     /\ \A i \in 1..Len(users) :
          Locked(users[i].lockedUntil) =>
            /\ users'[i].failedLoginAttempts = users[i].failedLoginAttempts
            /\ users'[i].lockedUntil = users[i].lockedUntil
            /\ \A s \in DOMAIN sessions' \ DOMAIN sessions :
                  sessions'[s].userId # users[i].id]_vars

\* ------------------------------------------------------------ rate limiter frame
\* the call of checkRateLimit a step has made
Called == rateCalls'[Len(rateCalls')]

\* C37: a call of checkRateLimit that returns false changes no record, and a
\* call never changes or adds the record of an identifier other than its own.
C37_RateFrame ==
  [][Len(rateCalls') = Len(rateCalls) + 1 =>
       /\ ~Called.allowed => rateLimitStore' = rateLimitStore
       /\ DOMAIN rateLimitStore' \subseteq DOMAIN rateLimitStore \cup {Called.identifier}
       /\ \A k \in DOMAIN rateLimitStore \ {Called.identifier} :
             k \in DOMAIN rateLimitStore' /\ rateLimitStore'[k] = rateLimitStore[k]]_vars

\* a denied call, later than the start of its window, with another
\* identifier's record in the store
C37_Witness ==
  /\ rateCalls # <<>>
  /\ LET c == rateCalls[Len(rateCalls)]
     IN /\ ~c.allowed
        /\ c.at + c.windowMs > rateLimitStore[c.identifier].resetTime
        /\ DOMAIN rateLimitStore \ {c.identifier} # {}

\* ------------------------------------------------------------ transfer limits
MaxLimitCalls == 3

QuantaPerDay == 24 * 4

\* the clock starts at 00:00 on 15 January of a year of 365 days
StartDayOfYear == 15 - 1
MonthLengths == <<31, 28, 31, 30, 31, 30, 31, 31, 30, 31, 30, 31>>

\* the number of the calendar day of time t, counted from 1 January
CalendarDay(t) == StartDayOfYear + t \div QuantaPerDay

RECURSIVE MonthFrom(_, _)
MonthFrom(d, m) == IF d < MonthLengths[m + 1] THEN m ELSE MonthFrom(d - MonthLengths[m + 1], m + 1)

RECURSIVE DateFrom(_, _)
DateFrom(d, m) == IF d < MonthLengths[m + 1] THEN d + 1 ELSE DateFrom(d - MonthLengths[m + 1], m + 1)

\* Date.prototype.getMonth (0 is January) and getDate (1 to 31)
GetMonth(t) == MonthFrom(CalendarDay(t) % 365, 0)
GetDate(t) == DateFrom(CalendarDay(t) % 365, 0)

DAILY_LIMIT == R(100000)
MONTHLY_LIMIT == R(1000000)

\* checkTransferLimits: the entry is created on first use, daily and monthly
\* are set to 0 when the day of the month, or the month, differs from that of
\* lastReset, and an allowed call adds the amount and sets lastReset.  The
\* call and its answer are kept in last.
CheckTransferLimits(userId, amount) ==
  LET limits == IF userId \in DOMAIN userLimits THEN userLimits[userId]
                ELSE [daily |-> 0, monthly |-> 0, lastReset |-> now]
      daily == IF GetDate(limits.lastReset) # GetDate(now) THEN 0 ELSE limits.daily
      monthly == IF GetMonth(limits.lastReset) # GetMonth(now) THEN 0 ELSE limits.monthly
      reason == IF daily + amount > DAILY_LIMIT THEN "DailyLimit"
                ELSE IF monthly + amount > MONTHLY_LIMIT THEN "MonthlyLimit"
                ELSE "ok"
      after == IF reason = "ok"
                 THEN [daily |-> daily + amount, monthly |-> monthly + amount, lastReset |-> now]
                 ELSE [daily |-> daily, monthly |-> monthly, lastReset |-> limits.lastReset]
  IN /\ nreq < MaxLimitCalls
     /\ nreq' = nreq + 1
     /\ userLimits' = (userId :> after) @@ userLimits
     /\ last' = [Response("checkTransferLimits", nreq + 1, userId, NoUser, GarbageToken, reason)
                   EXCEPT !.detail = <<amount>>]
     /\ UNCHANGED <<now, ticks, users, sessions, transactions, timers, rateLimitStore,
                    dbUsers, dbSessions, dbLoginHistory, dbTransactions, rateCalls,
                    tokens, fresh, req>>

LimitAmounts == {R(1), R(60000), R(100000)}

\* Calls for two users, a day apart and a month apart.
NextLimits ==
  \/ Tick(QuantaPerDay)
  \/ Tick(MonthLengths[1] * QuantaPerDay)
  \/ \E u \in {SeqId(1), SeqId(2)}, a \in LimitAmounts : CheckTransferLimits(u, a)

SpecLimits == Init /\ [][NextLimits]_vars

\* C38: a call made on a later calendar day than the user's last allowed call
\* starts from a daily total of 0: the daily limit refuses it only when its
\* own amount is above the limit.
C38_DailyWindow ==
  [][(last' # last /\ last'.op = "checkTransferLimits") =>
       LET u == last'.about
           amount == last'.detail[1]
       IN (u \in DOMAIN userLimits
           /\ CalendarDay(now) > CalendarDay(userLimits[u].lastReset))
            => (last'.resp = "DailyLimit" <=> amount > DAILY_LIMIT)]_vars

\* ------------------------------------------------------------ DatabaseConnection.transaction
MaxTxnCalls == 3

\* what a call of transaction has done so far: connections taken from the
\* pool and released, how beginTransaction, the callback and commit ended,
\* and the rollbacks issued
NoWork == [taken |-> 0, released |-> 0, begin |-> "none", callback |-> "none",
           commit |-> "none", rollbacks |-> 0]

\* transaction is called: it throws at once when there is no pool, and awaits
\* pool.getConnection() otherwise
TransactionStart(p, initialized) ==
  /\ IF ~initialized
       THEN Begin(p, "transaction", GarbageToken, NoWork, "done", NoUser, "error", MaxTxnCalls)
       ELSE Begin(p, "transaction", GarbageToken, NoWork, "connect", NoUser, "none", MaxTxnCalls)
  /\ UNCHANGED <<userLimits, now, ticks, users, sessions, transactions, timers, rateLimitStore,
                 dbUsers, dbSessions, dbLoginHistory, dbTransactions, rateCalls,
                 tokens, fresh>>

\* the answer of the call, with what it has done
TransactionReturn(p, resp, work) ==
  /\ req' = [req EXCEPT ![p] = Idle]
  /\ last' = [Response("transaction", req[p].seq, "none", NoUser, GarbageToken, resp)
                EXCEPT !.detail = <<work>>]

\* an await of the call in slot p is over and the call goes on to pc next
TransactionGoesOn(p, next, work) ==
  /\ req' = [req EXCEPT ![p].pc = next, ![p].arg = work]
  /\ last' = last

TransactionFrame ==
  UNCHANGED <<userLimits, now, ticks, users, sessions, transactions, timers, rateLimitStore,
              dbUsers, dbSessions, dbLoginHistory, dbTransactions, rateCalls,
              tokens, fresh, nreq>>

\* getConnection has answered: outside the try, so its error goes to the caller
TransactionConnect(p, ok) ==
  /\ req[p].op = "transaction"
  /\ req[p].pc = "connect"
  /\ IF ok THEN TransactionGoesOn(p, "begin", [req[p].arg EXCEPT !.taken = 1])
           ELSE TransactionReturn(p, "error", req[p].arg)
  /\ TransactionFrame

\* beginTransaction has answered
TransactionBegin(p, ok) ==
  /\ req[p].op = "transaction"
  /\ req[p].pc = "begin"
  /\ IF ok THEN TransactionGoesOn(p, "callback", [req[p].arg EXCEPT !.begin = "done"])
           ELSE TransactionGoesOn(p, "rollback", [req[p].arg EXCEPT !.begin = "threw"])
  /\ TransactionFrame

\* the callback has returned or thrown
TransactionCallback(p, ok) ==
  /\ req[p].op = "transaction"
  /\ req[p].pc = "callback"
  /\ IF ok THEN TransactionGoesOn(p, "commit", [req[p].arg EXCEPT !.callback = "returned"])
           ELSE TransactionGoesOn(p, "rollback", [req[p].arg EXCEPT !.callback = "threw"])
  /\ TransactionFrame

\* commit has answered: return result, through finally
TransactionCommit(p, ok) ==
  /\ req[p].op = "transaction"
  /\ req[p].pc = "commit"
  /\ IF ok THEN TransactionReturn(p, "ok", [req[p].arg EXCEPT !.commit = "done",
                                                               !.released = @ + 1])
           ELSE TransactionGoesOn(p, "rollback", [req[p].arg EXCEPT !.commit = "threw"])
  /\ TransactionFrame

TransactionRollbackLeaks(p, ok) ==
  /\ req[p].op = "transaction"
  /\ req[p].pc = "rollback"
  /\ TransactionReturn(p, "error", [req[p].arg EXCEPT !.rollbacks = @ + 1,
                                                     !.released = IF ok THEN @ + 1 ELSE @])
  /\ TransactionFrame

\* rollback has answered in the catch block: whether it threw or not, an
\* error leaves the try statement, through finally
TransactionRollback(p, ok) ==
  /\ req[p].op = "transaction"
  /\ req[p].pc = "rollback"
  /\ TransactionReturn(p, "error", [req[p].arg EXCEPT !.rollbacks = @ + 1,
                                                     !.released = @ + 1])
  /\ TransactionFrame

\* Two callers of transaction at a time; every await ends either way.
NextTransaction ==
  \/ \E p \in Procs, initialized \in BOOLEAN : TransactionStart(p, initialized)
  \/ \E p \in Procs, ok \in BOOLEAN : TransactionConnect(p, ok)
  \/ \E p \in Procs, ok \in BOOLEAN : TransactionBegin(p, ok)
  \/ \E p \in Procs, ok \in BOOLEAN : TransactionCallback(p, ok)
  \/ \E p \in Procs, ok \in BOOLEAN : TransactionCommit(p, ok)
  \/ \E p \in Procs, ok \in BOOLEAN : TransactionRollback(p, ok)

SpecTransaction == Init /\ [][NextTransaction]_vars

====
